---- MODULE Spec2Model ----
(***************************************************************************)
(* O2 analyzer backend: alarm service, PLC service and periodic PLC        *)
(* reader, modelled as state machines.                                     *)
(*                                                                         *)
(* Asynchronous functions are split at their await points: every record    *)
(* store operation is one atomic step, and the synchronous code that       *)
(* follows an await (up to the next await) is one atomic step.             *)
(*                                                                         *)
(* Time is counted in hours (variable now); O2 levels are whole percents.  *)
(***************************************************************************)
EXTENDS Integers, Sequences, FiniteSets, TLC

----------------------------------------------------------------------------
(* Bounds *)

MaxAlarms == 2
MaxNow == 1
MaxZombies == 1
MaxReads == 3
MaxReadings == 2
\* rows of the CalibrationPoints table
MaxCalibrations == 2

----------------------------------------------------------------------------
(* Values *)

NULL == 0 - 1

Min(a, b) == IF a <= b THEN a ELSE b
Max(a, b) == IF a >= b THEN a ELSE b

\* the chambers (Main, Entry), each with its ChamberSettings row; there is no
\* chamber 3
ChamberIds == {1, 2}

\* readings offered to the alarm service (thresholds 16 and 24 included)
O2Levels == {15, 16, 20, 23, 24, 25}
SensorStatuses == {"normal", "error"}

\* readings <<chamberId, o2Level, sensorStatus>> of the sequential runs: chamber 1
\* gets every reading, chamber 2 an in-range and a high one, chamber 3
\* (no settings) one
SeqReadings ==
    ({1} \X O2Levels \X SensorStatuses)
        \cup ({2} \X {20, 25} \X {"normal"})
        \cup {<<3, 25, "normal">>}

\* readings of the concurrent runs
RaceReadings == {1} \X {20, 25} \X SensorStatuses

\* readings of the runs in which sendAlarmToPLC may fail
FaultyReadings == {1, 2} \X {20, 25} \X {"normal"}

\* readings of the timed runs
TimedReadings == {1, 2} \X {25} \X {"normal"}

AlarmTypes == <<"high_o2", "low_o2", "sensor_error", "calibration_due">>
NumKinds == 4

OneHour == 1

Procs == {1, 2}
SeqProcs == {1}

VARIABLES
    alarms,          \* the alarms table: row i has primary key i
    chamberSettings, \* ChamberSettings rows by chamberId
    plcBits,         \* last value sent by writeBit for each alarm register
    now,             \* current time
    proc,            \* per caller: the call in progress and its locals
    readings,        \* the o2_readings table
    calibrationPoints, \* the calibration_points table
    demo,            \* PLCService.demo
    isWorking,       \* PLCService.isWorking
    isConnectedPLC,  \* PLCService.isConnectedPLC
    sensorData,      \* PLCService.sensorData
    zombies,         \* checkData intervals left running by reads that timed out
    call,            \* per PLC caller: the readRawValues/writeData call and its socket
    isRunning,       \* PeriodicPLCReader.isRunning
    interval,        \* PeriodicPLCReader.interval (ms)
    intervalId,      \* PeriodicPLCReader.intervalId: the period of its timer (0: null)
    liveTimers,      \* interval timers installed by start() and not cleared
    successfulReads, \* PeriodicPLCReader.successfulReads
    failedReads,     \* PeriodicPLCReader.failedReads
    cycle,           \* the readAndUpdateChambers invocations in progress
    lastRawFromPLC   \* Chamber.lastRawFromPLC by chamber id

alarmVars == <<alarms, chamberSettings, plcBits, now, proc, readings, calibrationPoints>>
plcVars == <<demo, isWorking, isConnectedPLC, sensorData, zombies, call>>
readerVars == <<isRunning, interval, intervalId, liveTimers, successfulReads, failedReads,
                cycle, lastRawFromPLC>>
vars == <<alarms, chamberSettings, plcBits, now, proc, readings, calibrationPoints,
          demo, isWorking, isConnectedPLC, sensorData, zombies, call,
          isRunning, interval, intervalId, liveTimers, successfulReads, failedReads,
          cycle, lastRawFromPLC>>

----------------------------------------------------------------------------
(* alarmService.js helpers *)

NoRegister == "none"
AlarmRegisters == {"M00407", "M00408"}

\* variant: the registers of the two chambers are exchanged
getAlarmRegisterSwapped(chamberId) ==
    IF chamberId = 1 THEN "M00408"
    ELSE IF chamberId = 2 THEN "M00407"
    ELSE NoRegister

getAlarmRegister(chamberId) ==
    IF chamberId = 1 THEN "M00407"
    ELSE IF chamberId = 2 THEN "M00408"
    ELSE NoRegister

\* global.socketHandler is installed before the server accepts requests
socketHandler == TRUE

Event(type, alarm, register, value) ==
    [type |-> type, alarm |-> alarm, register |-> register, value |-> value]

\* the events sendAlarmToPLC(chamberId, value) emits
sendAlarmToPLC(chamberId, value) ==
    IF socketHandler /\ getAlarmRegister(chamberId) # NoRegister
    THEN << Event("writeBit", 0, getAlarmRegister(chamberId), value) >>
    ELSE << >>

\* the register values after the events evs were sent
ApplyWrites(bits, evs) ==
    [r \in AlarmRegisters |->
        IF \E i \in 1..Len(evs) : evs[i].type = "writeBit" /\ evs[i].register = r
        THEN evs[CHOOSE i \in 1..Len(evs) :
                    /\ evs[i].type = "writeBit" /\ evs[i].register = r
                    /\ \A j \in (i+1)..Len(evs) :
                          ~(evs[j].type = "writeBit" /\ evs[j].register = r)].value
        ELSE bits[r]]

broadcastAlarm(id) ==
    IF socketHandler THEN << Event("alarm-triggered", id, NoRegister, NULL) >> ELSE << >>

broadcastAlarmResolved(id) ==
    IF socketHandler THEN << Event("alarm-resolved", id, NoRegister, NULL) >> ELSE << >>

----------------------------------------------------------------------------
(* Record store *)

NoSettings == [found |-> FALSE, alarmLevelHigh |-> 0, alarmLevelLow |-> 0,
               isCalibrationRequired |-> FALSE]

SeedSettings == [found |-> TRUE, alarmLevelHigh |-> 24, alarmLevelLow |-> 16,
                 isCalibrationRequired |-> TRUE]

\* ChamberSettings.findOne({ where: { chamberId } })
FindSettings(chamberId) ==
    IF chamberId \in ChamberIds THEN chamberSettings[chamberId] ELSE NoSettings

\* ids of the rows Alarm.findOne({where: {chamberId, alarmType, isActive: true}}) may return
ActiveAlarmIds(chamberId, alarmType) ==
    { i \in 1..Len(alarms) : /\ alarms[i].chamberId = chamberId
                             /\ alarms[i].alarmType = alarmType
                             /\ alarms[i].isActive }

\* the row Alarm.create builds: isActive and isMuted take the model's defaults
NewAlarm(chamberId, alarmType, o2Level) ==
    [chamberId |-> chamberId, alarmType |-> alarmType,
     isActive |-> TRUE, isMuted |-> FALSE, mutedUntil |-> NULL,
     resolvedAt |-> NULL, o2LevelWhenTriggered |-> o2Level]

----------------------------------------------------------------------------
(* PLC callers *)

CallIds == {1, 2, 3}

\* pc: idle | polling | connecting | waiting | sleeping | done
\* sock: none | connecting | open (ready, request written) | ended | closed
\* frame, value: the bytes of the request frame built for the call, and the value
\* a write frame was built for (BuildFrame)
\* received: "unsigned" once a response without the signature has been noted on
\* the call's socket (SockUnsigned), else "none"
NoCall == [op |-> "idle", pc |-> "idle", sock |-> "none",
           sockTimer |-> FALSE, timer |-> FALSE, checking |-> FALSE,
           numValues |-> 0, result |-> "none", error |-> "", data |-> << >>,
           blockers |-> {}, received |-> "none", frame |-> << >>, value |-> 0]

\* a response of the PLC: whether it starts with the signature 0x02 '0' '1' '4',
\* and the integers of its payload
ReadResponses == { [sig |-> TRUE, samples |-> <<11, 12, 13>>],
                   [sig |-> TRUE, samples |-> <<21>>],
                   [sig |-> FALSE, samples |-> << >>] }
WriteResponses == { [sig |-> TRUE, samples |-> << >>],
                    [sig |-> FALSE, samples |-> << >>] }

\* the periodic reader asks for 2 values
NumValuesInputs == {2}
DemoValues == {2500, 16383}

----------------------------------------------------------------------------
(* Periodic reader *)

\* readAndUpdateChambers invocations that can be in progress at once; invocation k
\* reads through PLC call k
CycleIds == {1, 2}

\* the active chambers, and those the constructor maps to a sensor index
ReaderChamberIds == {1, 2}
MappedChamberIds == {1, 2}
chamberSensorMapping == [ch \in MappedChamberIds |-> ch - 1]

\* pc: idle | reading | findAll | updating; published: the chamber-raw-value events
\* the invocation has broadcast
NoCycle == [pc |-> "idle", rawData |-> << >>, pending |-> {}, published |-> << >>]

----------------------------------------------------------------------------
(* Callers *)

\* what a caller remembers of its previous, completed call
NoPrev == [op |-> "idle", chamberId |-> 0, high |-> FALSE,
           sensorStatus |-> "normal", calReq |-> FALSE]

Idle == [op |-> "idle", pc |-> "idle", chamberId |-> 0, o2Level |-> 0,
         sensorStatus |-> "normal", alarmId |-> 0, mutedUntil |-> NULL,
         settings |-> NoSettings, kind |-> 0, alarm |-> 0, ts |-> NULL,
         calibrated |-> NULL, args |-> << >>, row |-> 0,
         seen |-> [k \in 1..NumKinds |-> NULL],
         result |-> << >>, out |-> << >>, error |-> "", prev |-> NoPrev]

Free(p) == proc[p].pc = "idle"

\* chamber 1 as seeded; chamber 2's isCalibrationRequired has been cleared since;
\* the calibration rows and the mode (DEMO_MODE) are set by the Init that uses this
InitExceptCalibration ==
    /\ alarms = << >>
    /\ chamberSettings = [c \in ChamberIds |->
            IF c = 1 THEN SeedSettings
            ELSE [SeedSettings EXCEPT !.isCalibrationRequired = FALSE]]
    /\ plcBits = [r \in AlarmRegisters |-> NULL]
    /\ now = 0
    /\ proc = [p \in Procs |-> Idle]
    /\ readings = << >>
    /\ isWorking = FALSE
    /\ isConnectedPLC = 0
    /\ sensorData = << >>
    /\ zombies = 0
    /\ call = [c \in CallIds |-> NoCall]
    /\ isRunning = FALSE
    /\ interval = 500
    /\ intervalId = 0
    /\ liveTimers = 0
    /\ successfulReads = 0
    /\ failedReads = 0
    /\ cycle = [k \in CycleIds |-> NoCycle]
    /\ lastRawFromPLC = [ch \in ReaderChamberIds |-> NULL]

Init ==
    /\ InitExceptCalibration
    /\ demo = 0
    /\ calibrationPoints = << >>

\* the service started with DEMO_MODE=1
InitDemo ==
    /\ InitExceptCalibration
    /\ demo = 1
    /\ calibrationPoints = << >>


Summary(c) ==
    [op |-> c.op, chamberId |-> c.chamberId,
     high |-> c.settings.found /\ c.o2Level > c.settings.alarmLevelHigh,
     sensorStatus |-> c.sensorStatus,
     calReq |-> c.settings.isCalibrationRequired]

\* a fresh call
NewCall(op) == [Idle EXCEPT !.op = op]

----------------------------------------------------------------------------
(* AlarmService.checkForAlarms / resolveAlarms *)

\* variant: a reading equal to a threshold counts as a breach
TriggerCondInclusive(k, c) ==
    CASE k = 1 -> c.o2Level >= c.settings.alarmLevelHigh
      [] k = 2 -> c.o2Level <= c.settings.alarmLevelLow
      [] k = 3 -> c.sensorStatus = "error"
      [] k = 4 -> c.settings.isCalibrationRequired

\* the condition under which checkForAlarms looks at alarm kind k
TriggerCond(k, c) ==
    CASE k = 1 -> c.o2Level > c.settings.alarmLevelHigh
      [] k = 2 -> c.o2Level < c.settings.alarmLevelLow
      [] k = 3 -> c.sensorStatus = "error"
      [] k = 4 -> c.settings.isCalibrationRequired

\* the condition under which resolveAlarms looks at alarm kind k
ResolveCond(k, c) ==
    CASE k = 1 -> c.o2Level <= c.settings.alarmLevelHigh
      [] k = 2 -> c.o2Level >= c.settings.alarmLevelLow
      [] k = 3 -> c.sensorStatus # "error"
      [] k = 4 -> ~c.settings.isCalibrationRequired

Cond(k, c) == IF c.op = "checkForAlarms" THEN TriggerCond(k, c) ELSE ResolveCond(k, c)

\* kinds 1, 2 (high_o2, low_o2) are the ones whose blocks call sendAlarmToPLC
WritesPLC(k) == k \in {1, 2}

\* run on from the if-block of kind `from` to the next findOne, or to the return
Advance(c, from) ==
    LET ks == { k \in from..NumKinds : Cond(k, c) } IN
    IF ks = {} THEN [c EXCEPT !.pc = "done", !.kind = 0]
    ELSE [c EXCEPT !.pc = "find", !.kind = CHOOSE k \in ks : \A j \in ks : k <= j]

CallCheckForAlarms(p, Readings) ==
    /\ Free(p)
    /\ \E r \in Readings :
         proc' = [proc EXCEPT ![p] =
                    [NewCall("checkForAlarms") EXCEPT !.pc = "settings",
                        !.chamberId = r[1], !.o2Level = r[2], !.sensorStatus = r[3]]]
    /\ UNCHANGED <<alarms, chamberSettings, plcBits, now, readings, calibrationPoints, plcVars, readerVars>>

\* the caller calls checkForAlarms again as soon as its call has returned, for
\* the same chamber and sensor status
RepeatCheckForAlarms(p, Readings) ==
    /\ proc[p].pc = "done" /\ proc[p].op = "checkForAlarms"
    /\ proc[p].prev = NoPrev
    /\ \E r \in Readings :
         /\ r[1] = proc[p].chamberId /\ r[3] = proc[p].sensorStatus
         /\ proc' = [proc EXCEPT ![p] =
                    [NewCall("checkForAlarms") EXCEPT !.pc = "settings",
                        !.chamberId = r[1], !.o2Level = r[2], !.sensorStatus = r[3],
                        !.prev = Summary(proc[p])]]
    /\ UNCHANGED <<alarms, chamberSettings, plcBits, now, readings, calibrationPoints, plcVars, readerVars>>

CallResolveAlarms(p, Readings) ==
    /\ Free(p)
    /\ \E r \in Readings :
         proc' = [proc EXCEPT ![p] =
                    [NewCall("resolveAlarms") EXCEPT !.pc = "settings",
                        !.chamberId = r[1], !.o2Level = r[2], !.sensorStatus = r[3]]]
    /\ UNCHANGED <<alarms, chamberSettings, plcBits, now, readings, calibrationPoints, plcVars, readerVars>>

\* the caller has its result and goes on
Return(p) ==
    /\ proc[p].pc = "done"
    /\ proc' = [proc EXCEPT ![p] = Idle]
    /\ UNCHANGED <<alarms, chamberSettings, plcBits, now, readings, calibrationPoints, plcVars, readerVars>>

\* await ChamberSettings.findOne(...); if (!settings) return
LoadSettings(p) ==
    /\ proc[p].pc = "settings"
    /\ LET s == FindSettings(proc[p].chamberId) IN
         proc' = [proc EXCEPT ![p] =
                    IF ~s.found THEN [@ EXCEPT !.pc = "done"]
                    ELSE Advance([@ EXCEPT !.settings = s], 1)]
    /\ UNCHANGED <<alarms, chamberSettings, plcBits, now, readings, calibrationPoints, plcVars, readerVars>>

\* variant: the alarm is created without looking for an existing active one
CheckFindSkipsLookup(p) ==
    /\ proc[p].op = "checkForAlarms" /\ proc[p].pc = "find"
    /\ proc' = [proc EXCEPT ![p].pc = "create", ![p].seen[proc[p].kind] = 0]
    /\ UNCHANGED <<alarms, chamberSettings, plcBits, now, readings, calibrationPoints, plcVars, readerVars>>

\* variant: a muted alarm does not count as an existing one
CheckFindSkipsMuted(p) ==
    /\ proc[p].op = "checkForAlarms" /\ proc[p].pc = "find"
    /\ LET c == proc[p]
           k == c.kind
           ids == { i \in ActiveAlarmIds(c.chamberId, AlarmTypes[k]) : ~alarms[i].isMuted } IN
         proc' = [proc EXCEPT ![p] =
                    IF ids = {} THEN [c EXCEPT !.pc = "create", !.seen[k] = 0]
                    ELSE Advance([c EXCEPT !.seen[k] = 1], k + 1)]
    /\ UNCHANGED <<alarms, chamberSettings, plcBits, now, readings, calibrationPoints, plcVars, readerVars>>

\* checkForAlarms: await Alarm.findOne(...); if (!existingAlarm) ...
CheckFind(p) ==
    /\ proc[p].op = "checkForAlarms" /\ proc[p].pc = "find"
    /\ LET c == proc[p]
           k == c.kind
           ids == ActiveAlarmIds(c.chamberId, AlarmTypes[k]) IN
         proc' = [proc EXCEPT ![p] =
                    IF ids = {} THEN [c EXCEPT !.pc = "create", !.seen[k] = 0]
                    ELSE Advance([c EXCEPT !.seen[k] = 1], k + 1)]
    /\ UNCHANGED <<alarms, chamberSettings, plcBits, now, readings, calibrationPoints, plcVars, readerVars>>

\* variant: a resolved row of the same chamber and kind is made active again
\* instead of a new row being created
CheckCreateReactivates(p) ==
    /\ proc[p].op = "checkForAlarms" /\ proc[p].pc = "create"
    /\ LET c == proc[p]
           k == c.kind
           old == { i \in 1..Len(alarms) : /\ alarms[i].chamberId = c.chamberId
                                           /\ alarms[i].alarmType = AlarmTypes[k]
                                           /\ ~alarms[i].isActive } IN
         IF old = {}
         THEN /\ Len(alarms) < MaxAlarms
              /\ alarms' = Append(alarms,
                     NewAlarm(c.chamberId, AlarmTypes[k],
                              IF WritesPLC(k) THEN c.o2Level ELSE NULL))
              /\ proc' = [proc EXCEPT ![p] = [c EXCEPT !.pc = "emit", !.alarm = Len(alarms) + 1]]
         ELSE \E i \in old :
                /\ alarms' = [alarms EXCEPT ![i].isActive = TRUE, ![i].resolvedAt = NULL]
                /\ proc' = [proc EXCEPT ![p] = [c EXCEPT !.pc = "emit", !.alarm = i]]
    /\ UNCHANGED <<chamberSettings, plcBits, now, readings, calibrationPoints, plcVars, readerVars>>

\* checkForAlarms: await Alarm.create(...)
CheckCreate(p) ==
    /\ proc[p].op = "checkForAlarms" /\ proc[p].pc = "create"
    /\ Len(alarms) < MaxAlarms
    /\ LET c == proc[p]
           k == c.kind IN
         /\ alarms' = Append(alarms,
                NewAlarm(c.chamberId, AlarmTypes[k],
                         IF WritesPLC(k) THEN c.o2Level ELSE NULL))
         /\ proc' = [proc EXCEPT ![p] = [c EXCEPT !.pc = "emit", !.alarm = Len(alarms) + 1]]
    /\ UNCHANGED <<chamberSettings, plcBits, now, readings, calibrationPoints, plcVars, readerVars>>

\* checkForAlarms: alarms.push(alarm); broadcastAlarm(alarm); sendAlarmToPLC(chamberId, 1)
CheckEmit(p) ==
    /\ proc[p].op = "checkForAlarms" /\ proc[p].pc = "emit"
    /\ LET c == proc[p]
           k == c.kind
           evs == broadcastAlarm(c.alarm) \o
                  (IF WritesPLC(k) THEN sendAlarmToPLC(c.chamberId, 1) ELSE << >>) IN
         /\ plcBits' = ApplyWrites(plcBits, evs)
         /\ proc' = [proc EXCEPT ![p] =
                Advance([c EXCEPT !.result = Append(@, c.alarm), !.out = @ \o evs], k + 1)]
    /\ UNCHANGED <<alarms, chamberSettings, now, readings, calibrationPoints, plcVars, readerVars>>

\* resolveAlarms: await Alarm.findOne(...); if (alarm) alarm.update({... new Date()})
ResolveFind(p) ==
    /\ proc[p].op = "resolveAlarms" /\ proc[p].pc = "find"
    /\ LET c == proc[p]
           k == c.kind
           ids == ActiveAlarmIds(c.chamberId, AlarmTypes[k]) IN
         IF ids = {}
         THEN proc' = [proc EXCEPT ![p] = Advance([c EXCEPT !.seen[k] = 0], k + 1)]
         ELSE \E id \in ids :
                proc' = [proc EXCEPT ![p] =
                           [c EXCEPT !.pc = "update", !.seen[k] = 1, !.alarm = id, !.ts = now]]
    /\ UNCHANGED <<alarms, chamberSettings, plcBits, now, readings, calibrationPoints, plcVars, readerVars>>

\* resolveAlarms: the UPDATE of alarm.update({ isActive: false, resolvedAt })
ResolveUpdate(p) ==
    /\ proc[p].op = "resolveAlarms" /\ proc[p].pc = "update"
    /\ LET c == proc[p] IN
         /\ alarms' = [alarms EXCEPT ![c.alarm].isActive = FALSE,
                                      ![c.alarm].resolvedAt = c.ts]
         /\ proc' = [proc EXCEPT ![p] = [c EXCEPT !.pc = "emit"]]
    /\ UNCHANGED <<chamberSettings, plcBits, now, readings, calibrationPoints, plcVars, readerVars>>

\* resolveAlarms: resolvedAlarms.push; broadcastAlarmResolved; sendAlarmToPLC(chamberId, 0)
ResolveEmit(p) ==
    /\ proc[p].op = "resolveAlarms" /\ proc[p].pc = "emit"
    /\ LET c == proc[p]
           k == c.kind
           evs == broadcastAlarmResolved(c.alarm) \o
                  (IF WritesPLC(k) THEN sendAlarmToPLC(c.chamberId, 0) ELSE << >>) IN
         /\ plcBits' = ApplyWrites(plcBits, evs)
         /\ proc' = [proc EXCEPT ![p] =
                Advance([c EXCEPT !.result = Append(@, c.alarm), !.out = @ \o evs], k + 1)]
    /\ UNCHANGED <<alarms, chamberSettings, now, readings, calibrationPoints, plcVars, readerVars>>

----------------------------------------------------------------------------
(* AlarmService.muteAlarm / resolveAlarm *)

\* ids a client may pass: one more than the table can hold, so that a miss is possible
AlarmIdInputs == 1..(MaxAlarms + 1)

\* mutedUntil of the request body: omitted, or a given time
MutedUntilInputs == {NULL, 1}

CallMuteAlarm(p, Untils) ==
    /\ Free(p)
    /\ \E alarmId \in AlarmIdInputs, mutedUntil \in Untils :
         proc' = [proc EXCEPT ![p] =
                    [NewCall("muteAlarm") EXCEPT !.pc = "find",
                        !.alarmId = alarmId, !.mutedUntil = mutedUntil]]
    /\ UNCHANGED <<alarms, chamberSettings, plcBits, now, readings, calibrationPoints, plcVars, readerVars>>

CallResolveAlarm(p) ==
    /\ Free(p)
    /\ \E alarmId \in AlarmIdInputs :
         proc' = [proc EXCEPT ![p] =
                    [NewCall("resolveAlarm") EXCEPT !.pc = "find", !.alarmId = alarmId]]
    /\ UNCHANGED <<alarms, chamberSettings, plcBits, now, readings, calibrationPoints, plcVars, readerVars>>

\* muteAlarm: await Alarm.findByPk(alarmId); throw if missing; build the update
MuteFind(p) ==
    /\ proc[p].op = "muteAlarm" /\ proc[p].pc = "find"
    /\ LET c == proc[p] IN
         proc' = [proc EXCEPT ![p] =
                    IF c.alarmId > Len(alarms)
                    THEN [c EXCEPT !.pc = "done", !.error = "Alarm not found"]
                    ELSE [c EXCEPT !.pc = "update", !.alarm = c.alarmId,
                             !.chamberId = alarms[c.alarmId].chamberId,
                             !.ts = IF c.mutedUntil # NULL THEN c.mutedUntil
                                    ELSE now + OneHour]]
    /\ UNCHANGED <<alarms, chamberSettings, plcBits, now, readings, calibrationPoints, plcVars, readerVars>>

\* variant: muting also deactivates the alarm
MuteUpdateDeactivates(p) ==
    /\ proc[p].op = "muteAlarm" /\ proc[p].pc = "update"
    /\ LET c == proc[p] IN
         /\ alarms' = [alarms EXCEPT ![c.alarm].isMuted = TRUE,
                                      ![c.alarm].mutedUntil = c.ts,
                                      ![c.alarm].isActive = FALSE]
         /\ proc' = [proc EXCEPT ![p] = [c EXCEPT !.pc = "emit"]]
    /\ UNCHANGED <<chamberSettings, plcBits, now, readings, calibrationPoints, plcVars, readerVars>>

\* muteAlarm: the UPDATE of alarm.update({ isMuted: true, mutedUntil })
MuteUpdate(p) ==
    /\ proc[p].op = "muteAlarm" /\ proc[p].pc = "update"
    /\ LET c == proc[p] IN
         /\ alarms' = [alarms EXCEPT ![c.alarm].isMuted = TRUE,
                                      ![c.alarm].mutedUntil = c.ts]
         /\ proc' = [proc EXCEPT ![p] = [c EXCEPT !.pc = "emit"]]
    /\ UNCHANGED <<chamberSettings, plcBits, now, readings, calibrationPoints, plcVars, readerVars>>

\* muteAlarm: sendAlarmToPLC(alarm.chamberId, 0); return alarm
MuteEmit(p) ==
    /\ proc[p].op = "muteAlarm" /\ proc[p].pc = "emit"
    /\ LET c == proc[p]
           evs == sendAlarmToPLC(c.chamberId, 0) IN
         /\ plcBits' = ApplyWrites(plcBits, evs)
         /\ proc' = [proc EXCEPT ![p] =
                [c EXCEPT !.pc = "done", !.result = << c.alarm >>, !.out = @ \o evs]]
    /\ UNCHANGED <<alarms, chamberSettings, now, readings, calibrationPoints, plcVars, readerVars>>

\* variant: a missing alarm is not reported
ResolveAlarmFindIgnoresMissing(p) ==
    /\ proc[p].op = "resolveAlarm" /\ proc[p].pc = "find"
    /\ LET c == proc[p] IN
         proc' = [proc EXCEPT ![p] =
                    IF c.alarmId > Len(alarms)
                    THEN [c EXCEPT !.pc = "done"]
                    ELSE [c EXCEPT !.pc = "update", !.alarm = c.alarmId,
                             !.chamberId = alarms[c.alarmId].chamberId, !.ts = now]]
    /\ UNCHANGED <<alarms, chamberSettings, plcBits, now, readings, calibrationPoints, plcVars, readerVars>>

\* resolveAlarm: await Alarm.findByPk(alarmId); throw if missing; build the update
ResolveAlarmFind(p) ==
    /\ proc[p].op = "resolveAlarm" /\ proc[p].pc = "find"
    /\ LET c == proc[p] IN
         proc' = [proc EXCEPT ![p] =
                    IF c.alarmId > Len(alarms)
                    THEN [c EXCEPT !.pc = "done", !.error = "Alarm not found"]
                    ELSE [c EXCEPT !.pc = "update", !.alarm = c.alarmId,
                             !.chamberId = alarms[c.alarmId].chamberId, !.ts = now]]
    /\ UNCHANGED <<alarms, chamberSettings, plcBits, now, readings, calibrationPoints, plcVars, readerVars>>

\* resolveAlarm: the UPDATE of alarm.update({ isActive: false, resolvedAt })
ResolveAlarmUpdate(p) ==
    /\ proc[p].op = "resolveAlarm" /\ proc[p].pc = "update"
    /\ LET c == proc[p] IN
         /\ alarms' = [alarms EXCEPT ![c.alarm].isActive = FALSE,
                                      ![c.alarm].resolvedAt = c.ts]
         /\ proc' = [proc EXCEPT ![p] = [c EXCEPT !.pc = "emit"]]
    /\ UNCHANGED <<chamberSettings, plcBits, now, readings, calibrationPoints, plcVars, readerVars>>

\* resolveAlarm: sendAlarmToPLC(alarm.chamberId, 0); return alarm
ResolveAlarmEmit(p) ==
    /\ proc[p].op = "resolveAlarm" /\ proc[p].pc = "emit"
    /\ LET c == proc[p]
           evs == sendAlarmToPLC(c.chamberId, 0) IN
         /\ plcBits' = ApplyWrites(plcBits, evs)
         /\ proc' = [proc EXCEPT ![p] =
                [c EXCEPT !.pc = "done", !.result = << c.alarm >>, !.out = @ \o evs]]
    /\ UNCHANGED <<alarms, chamberSettings, now, readings, calibrationPoints, plcVars, readerVars>>

\* sendAlarmToPLC throws (io.emit fails) in a call that has changed its alarm row:
\* nothing around it catches, the method's catch block logs and rethrows
EmitFailedError == "writeBit failed"

EmitFails(p) ==
    /\ proc[p].pc = "emit"
    /\ proc[p].op \in {"checkForAlarms", "resolveAlarms", "muteAlarm", "resolveAlarm"}
    /\ proc[p].op \in {"checkForAlarms", "resolveAlarms"} => WritesPLC(proc[p].kind)
    /\ socketHandler /\ getAlarmRegister(proc[p].chamberId) # NoRegister
    /\ LET c == proc[p]
           evs == CASE c.op = "checkForAlarms" -> broadcastAlarm(c.alarm)
                    [] c.op = "resolveAlarms" -> broadcastAlarmResolved(c.alarm)
                    [] OTHER -> << >> IN
         proc' = [proc EXCEPT ![p] =
                    [c EXCEPT !.pc = "done", !.error = EmitFailedError,
                              !.result = << >>, !.out = @ \o evs]]
    /\ UNCHANGED <<alarms, chamberSettings, plcBits, now, readings, calibrationPoints, plcVars, readerVars>>

----------------------------------------------------------------------------
(* CalibrationService.applyCalibration / calibrateReading *)

\* Slopes and offsets are held in millionths (toFixed(6)), calibrated values in
\* millionths of a percent, stored O2 levels in hundredths of a percent.
Million == 1000000
Hundredth == 10000

\* variant: the result is not limited to 0..100
applyCalibrationUnclamped(rawValue, slope, offset) == rawValue * slope + offset

\* Math.max(0, Math.min(100, rawValue * slope + offset)), in millionths
applyCalibration(rawValue, slope, offset) ==
    Max(0, Min(100 * Million, rawValue * slope + offset))

\* parseFloat(v.toFixed(2)), from millionths to hundredths (v >= 0)
ToFixed2(v) == (v + (Hundredth \div 2)) \div Hundredth

\* CalibrationPoints.findOne({ where: { chamberId, isActive: true } })
ActiveCalibrationIds(chamberId) ==
    { i \in 1..Len(calibrationPoints) :
        calibrationPoints[i].chamberId = chamberId /\ calibrationPoints[i].isActive }

\* variant: without an active row the reading becomes 0
calibrateReadingNoFallback(i, rawValue) ==
    IF i = 0 THEN 0
    ELSE ToFixed2(applyCalibration(rawValue, calibrationPoints[i].calibrationSlope,
                                   calibrationPoints[i].calibrationOffset))

\* calibrateReading with the active row i (0: none), in hundredths
calibrateReading(i, rawValue) ==
    IF i = 0 THEN rawValue * 100
    ELSE ToFixed2(applyCalibration(rawValue, calibrationPoints[i].calibrationSlope,
                                   calibrationPoints[i].calibrationOffset))

----------------------------------------------------------------------------
(* CalibrationService.calculateCalibrationCoefficients *)

Abs(x) == IF x < 0 THEN 0 - x ELSE x
Sgn(x) == IF x < 0 THEN 0 - 1 ELSE IF x > 0 THEN 1 ELSE 0

\* n / d rounded to the nearest integer, halves upwards (n >= 0, d > 0)
RoundDiv(n, d) == (2 * n + d) \div (2 * d)

\* parseFloat((n / d).toFixed(6)) in millionths (n >= 0, d > 0)
ToFixed6(n, d) == (n \div d) * Million + RoundDiv((n % d) * Million, d)

\* a field of the request body that is absent
Missing == NULL

\* variant: the two slopes are added but not halved
calculateCalibrationCoefficientsSum(zeroPointRaw, midPointRaw, hundredPointRaw, midPointCalibrated) ==
    LET d == (midPointRaw - zeroPointRaw) * (hundredPointRaw - midPointRaw)
        n == midPointCalibrated * (hundredPointRaw - midPointRaw)
               + (100 - midPointCalibrated) * (midPointRaw - zeroPointRaw)
        num == Sgn(d) * n
        den == Abs(d) IN
    IF d = 0 THEN [finite |-> FALSE, slope |-> 0, offset |-> 0]
    ELSE [finite |-> TRUE,
          slope |-> Sgn(num) * ToFixed6(Abs(num), den),
          offset |-> (0 - Sgn(num * zeroPointRaw)) * ToFixed6(Abs(num * zeroPointRaw), den)]

\* slope1 = midPointCalibrated / (midPointRaw - zeroPointRaw),
\* slope2 = (100 - midPointCalibrated) / (hundredPointRaw - midPointRaw),
\* avgSlope = (slope1 + slope2) / 2 = n / d, offset = 0 - avgSlope * zeroPointRaw;
\* a division by zero yields Infinity or NaN, not an exception (finite = FALSE)
calculateCalibrationCoefficients(zeroPointRaw, midPointRaw, hundredPointRaw, midPointCalibrated) ==
    LET d == 2 * (midPointRaw - zeroPointRaw) * (hundredPointRaw - midPointRaw)
        n == midPointCalibrated * (hundredPointRaw - midPointRaw)
               + (100 - midPointCalibrated) * (midPointRaw - zeroPointRaw)
        num == Sgn(d) * n
        den == Abs(d) IN
    IF d = 0 THEN [finite |-> FALSE, slope |-> 0, offset |-> 0]
    ELSE [finite |-> TRUE,
          slope |-> Sgn(num) * ToFixed6(Abs(num), den),
          offset |-> (0 - Sgn(num * zeroPointRaw)) * ToFixed6(Abs(num * zeroPointRaw), den)]

\* raw values of the three points and calibrated values of the mid point
RawValues == 0..4
\* raw values of direct calls of calculateCalibrationCoefficients
CoefficientRaws == 0..7
MidPointValues == {21, 50}

\* a direct call of calculateCalibrationCoefficients
CallCalculateCoefficients(p) ==
    /\ Free(p)
    /\ \E z \in CoefficientRaws, m \in CoefficientRaws, h \in CoefficientRaws,
          mc \in MidPointValues :
         proc' = [proc EXCEPT ![p] =
                    [NewCall("calculateCalibrationCoefficients") EXCEPT
                        !.pc = "run", !.args = <<z, m, h, mc>>]]
    /\ UNCHANGED <<alarms, chamberSettings, plcBits, now, readings, calibrationPoints, plcVars, readerVars>>

\* the body of calculateCalibrationCoefficients: nothing in it throws
RunCalculateCoefficients(p) ==
    /\ proc[p].op = "calculateCalibrationCoefficients" /\ proc[p].pc = "run"
    /\ LET a == proc[p].args IN
         proc' = [proc EXCEPT ![p].pc = "done",
                    ![p].result = << calculateCalibrationCoefficients(a[1], a[2], a[3], a[4]) >>]
    /\ UNCHANGED <<alarms, chamberSettings, plcBits, now, readings, calibrationPoints, plcVars, readerVars>>

\* slopes and offsets (millionths) of direct calls of applyCalibration
SlopeValues == {0 - 25 * Million, 0, 4200, 50 * Million}
OffsetValues == {0 - 50 * Million, 0, 150 * Million}

CallApplyCalibration(p) ==
    /\ Free(p)
    /\ \E r \in RawValues, s \in SlopeValues, o \in OffsetValues :
         proc' = [proc EXCEPT ![p] =
                    [NewCall("applyCalibration") EXCEPT !.pc = "run", !.args = <<r, s, o>>]]
    /\ UNCHANGED <<alarms, chamberSettings, plcBits, now, readings, calibrationPoints, plcVars, readerVars>>

RunApplyCalibration(p) ==
    /\ proc[p].op = "applyCalibration" /\ proc[p].pc = "run"
    /\ LET a == proc[p].args IN
         proc' = [proc EXCEPT ![p].pc = "done",
                    ![p].result = << applyCalibration(a[1], a[2], a[3]) >>]
    /\ UNCHANGED <<alarms, chamberSettings, plcBits, now, readings, calibrationPoints, plcVars, readerVars>>

\* calculateCalibrationCoefficients for a triple, then applyCalibration to each of
\* its three raw values with the coefficients returned
RunRoundTrip(p) ==
    /\ proc[p].op = "calculateCalibrationCoefficients" /\ proc[p].pc = "done"
    /\ Len(proc[p].result) = 1 /\ proc[p].result[1].finite
    /\ LET a == proc[p].args
           k == proc[p].result[1] IN
         proc' = [proc EXCEPT ![p].result = @ \o
                    << applyCalibration(a[1], k.slope, k.offset),
                       applyCalibration(a[2], k.slope, k.offset),
                       applyCalibration(a[3], k.slope, k.offset) >>]
    /\ UNCHANGED <<alarms, chamberSettings, plcBits, now, readings, calibrationPoints, plcVars, readerVars>>

----------------------------------------------------------------------------
(* CalibrationService.performThreePointCalibration *)

\* !x of a point: absent, or the number 0
Falsy(x) == x = Missing \/ x = 0

InCalibration(p) ==
    proc[p].op = "performThreePointCalibration" /\ proc[p].pc \notin {"idle", "done"}

\* requests <<chamberId, zeroPointRaw, midPointRaw, hundredPointRaw, midPointCalibrated>>
CallPerformThreePointCalibration(p, Requests) ==
    /\ Free(p)
    /\ Len(calibrationPoints) + Cardinality({q \in Procs : InCalibration(q)}) < MaxCalibrations
    /\ \E r \in Requests :
         proc' = [proc EXCEPT ![p] =
                    [NewCall("performThreePointCalibration") EXCEPT
                        !.pc = "validate", !.chamberId = r[1],
                        !.args = <<r[2], r[3], r[4], r[5]>>]]
    /\ UNCHANGED <<alarms, chamberSettings, plcBits, now, readings, calibrationPoints, plcVars, readerVars>>

\* variant: only absent points count as missing
CalibrationValidateAcceptsZero(p) ==
    /\ proc[p].op = "performThreePointCalibration" /\ proc[p].pc = "validate"
    /\ LET a == proc[p].args IN
         proc' = [proc EXCEPT ![p] =
            IF a[1] = Missing \/ a[2] = Missing \/ a[3] = Missing
            THEN [@ EXCEPT !.pc = "done", !.error = "All calibration points are required"]
            ELSE IF a[1] >= a[2] \/ a[2] >= a[3]
            THEN [@ EXCEPT !.pc = "done",
                           !.error = "Calibration points must be in ascending order"]
            ELSE [@ EXCEPT !.pc = "deactivate"]]
    /\ UNCHANGED <<alarms, chamberSettings, plcBits, now, readings, calibrationPoints, plcVars, readerVars>>

\* variant: the active rows are deactivated before the points are validated
CalibrationValidateAfterDeactivate(p) ==
    /\ proc[p].op = "performThreePointCalibration" /\ proc[p].pc = "validate"
    /\ LET a == proc[p].args IN
         proc' = [proc EXCEPT ![p] =
            IF Falsy(a[1]) \/ Falsy(a[2]) \/ Falsy(a[3])
            THEN [@ EXCEPT !.pc = "done", !.error = "All calibration points are required"]
            ELSE IF a[1] >= a[2] \/ a[2] >= a[3]
            THEN [@ EXCEPT !.pc = "done",
                           !.error = "Calibration points must be in ascending order"]
            ELSE [@ EXCEPT !.pc = "create"]]
    /\ calibrationPoints' = [i \in 1..Len(calibrationPoints) |->
            IF calibrationPoints[i].chamberId = proc[p].chamberId
            THEN [calibrationPoints[i] EXCEPT !.isActive = FALSE]
            ELSE calibrationPoints[i]]
    /\ UNCHANGED <<alarms, chamberSettings, plcBits, now, readings, plcVars, readerVars>>

\* the two validations; the coefficients are then computed from the same arguments
CalibrationValidate(p) ==
    /\ proc[p].op = "performThreePointCalibration" /\ proc[p].pc = "validate"
    /\ LET a == proc[p].args IN
         proc' = [proc EXCEPT ![p] =
            IF Falsy(a[1]) \/ Falsy(a[2]) \/ Falsy(a[3])
            THEN [@ EXCEPT !.pc = "done", !.error = "All calibration points are required"]
            ELSE IF a[1] >= a[2] \/ a[2] >= a[3]
            THEN [@ EXCEPT !.pc = "done",
                           !.error = "Calibration points must be in ascending order"]
            ELSE [@ EXCEPT !.pc = "deactivate"]]
    /\ UNCHANGED <<alarms, chamberSettings, plcBits, now, readings, calibrationPoints, plcVars, readerVars>>

\* await CalibrationPoints.update({ isActive: false }, { where: { chamberId, isActive: true } })
CalibrationDeactivate(p) ==
    /\ proc[p].op = "performThreePointCalibration" /\ proc[p].pc = "deactivate"
    /\ calibrationPoints' = [i \in 1..Len(calibrationPoints) |->
            IF calibrationPoints[i].chamberId = proc[p].chamberId
            THEN [calibrationPoints[i] EXCEPT !.isActive = FALSE]
            ELSE calibrationPoints[i]]
    /\ proc' = [proc EXCEPT ![p].pc = "create"]
    /\ UNCHANGED <<alarms, chamberSettings, plcBits, now, readings, plcVars, readerVars>>

\* await CalibrationPoints.create({...}): the new row is active
CalibrationCreate(p) ==
    /\ proc[p].op = "performThreePointCalibration" /\ proc[p].pc = "create"
    /\ LET a == proc[p].args
           coefficients == calculateCalibrationCoefficients(a[1], a[2], a[3], a[4]) IN
         calibrationPoints' = Append(calibrationPoints,
            [chamberId |-> proc[p].chamberId, isActive |-> TRUE,
             zeroPointRaw |-> a[1], midPointRaw |-> a[2], hundredPointRaw |-> a[3],
             midPointCalibrated |-> a[4],
             calibrationSlope |-> coefficients.slope,
             calibrationOffset |-> coefficients.offset])
    /\ proc' = [proc EXCEPT ![p].pc = "history", ![p].row = Len(calibrationPoints) + 1]
    /\ UNCHANGED <<alarms, chamberSettings, plcBits, now, readings, plcVars, readerVars>>

\* await CalibrationHistory.create({...})
CalibrationHistoryCreate(p) ==
    /\ proc[p].op = "performThreePointCalibration" /\ proc[p].pc = "history"
    /\ proc' = [proc EXCEPT ![p].pc = "settings"]
    /\ UNCHANGED <<alarms, chamberSettings, plcBits, now, readings, calibrationPoints, plcVars, readerVars>>

\* await ChamberSettings.findOne(...): every chamber has its settings row
CalibrationSettingsFind(p) ==
    /\ proc[p].op = "performThreePointCalibration" /\ proc[p].pc = "settings"
    /\ proc' = [proc EXCEPT ![p].pc = "settingsUpdate",
                            ![p].settings = FindSettings(proc[p].chamberId)]
    /\ UNCHANGED <<alarms, chamberSettings, plcBits, now, readings, calibrationPoints, plcVars, readerVars>>

\* await settings.update({ isCalibrationRequired: false, ... }); return
CalibrationSettingsUpdate(p) ==
    /\ proc[p].op = "performThreePointCalibration" /\ proc[p].pc = "settingsUpdate"
    /\ chamberSettings' = [chamberSettings EXCEPT
                              ![proc[p].chamberId].isCalibrationRequired = FALSE]
    /\ proc' = [proc EXCEPT ![p].pc = "done", ![p].result = << proc[p].row >>]
    /\ UNCHANGED <<alarms, plcBits, now, readings, calibrationPoints, plcVars, readerVars>>

\* one of the awaited store operations of performThreePointCalibration rejects:
\* the catch block logs and rethrows
CalibrationStoreFails(p) ==
    /\ proc[p].op = "performThreePointCalibration"
    /\ proc[p].pc \in {"deactivate", "create", "history", "settings", "settingsUpdate"}
    /\ proc' = [proc EXCEPT ![p].pc = "done", ![p].error = "store failure"]
    /\ UNCHANGED <<alarms, chamberSettings, plcBits, now, readings, calibrationPoints, plcVars, readerVars>>

CalibrationStep(p, Requests) ==
    \/ CallPerformThreePointCalibration(p, Requests)
    \/ CalibrationValidate(p)
    \/ CalibrationDeactivate(p)
    \/ CalibrationCreate(p)
    \/ CalibrationHistoryCreate(p)
    \/ CalibrationSettingsFind(p)
    \/ CalibrationSettingsUpdate(p)

----------------------------------------------------------------------------
(* CalibrationService.calibrateReading, called by SettingsController.calibrateReading *)

CallCalibrateReading(p) ==
    /\ Free(p)
    /\ \E ch \in ChamberIds, r \in RawValues :
         proc' = [proc EXCEPT ![p] =
                    [NewCall("calibrateReading") EXCEPT
                        !.pc = "lookup", !.chamberId = ch, !.args = << r >>]]
    /\ UNCHANGED <<alarms, chamberSettings, plcBits, now, readings, calibrationPoints, plcVars, readerVars>>

\* await this.getActiveCalibrationPoints(chamberId), then the conversion
CalibrateReadingLookup(p) ==
    /\ proc[p].op = "calibrateReading" /\ proc[p].pc = "lookup"
    /\ LET ids == ActiveCalibrationIds(proc[p].chamberId) IN
         \E i \in (IF ids = {} THEN {0} ELSE ids) :
            proc' = [proc EXCEPT ![p].pc = "done", ![p].row = i,
                        ![p].calibrated = calibrateReading(i, proc[p].args[1]),
                        ![p].result = << calibrateReading(i, proc[p].args[1]) >>]
    /\ UNCHANGED <<alarms, chamberSettings, plcBits, now, readings, calibrationPoints, plcVars, readerVars>>

\* the lookup throws: the catch block returns rawValue
CalibrateReadingLookupFails(p) ==
    /\ proc[p].op = "calibrateReading" /\ proc[p].pc = "lookup"
    /\ proc' = [proc EXCEPT ![p].pc = "done", ![p].row = 0,
                            ![p].calibrated = proc[p].args[1] * 100,
                            ![p].result = << proc[p].args[1] * 100 >>]
    /\ UNCHANGED <<alarms, chamberSettings, plcBits, now, readings, calibrationPoints, plcVars, readerVars>>

----------------------------------------------------------------------------
(* ChamberController.addReading *)

\* requests <<chamber id, o2Level of the body, sensorStatus>>; chamber 3 does not exist
ReadingRequests == ({1} \X {5000, 6000} \X SensorStatuses)
                      \cup ({2} \X {20, 25} \X {"normal"})
                      \cup {<<3, 20, "normal">>}

CallAddReading(p) ==
    /\ Free(p)
    /\ \E r \in ReadingRequests :
         /\ r[1] \in ChamberIds => Len(readings) < MaxReadings
         /\ proc' = [proc EXCEPT ![p] =
                    [NewCall("addReading") EXCEPT !.pc = "findChamber",
                        !.chamberId = r[1], !.o2Level = r[2], !.sensorStatus = r[3]]]
    /\ UNCHANGED <<alarms, chamberSettings, plcBits, now, readings, calibrationPoints, plcVars, readerVars>>

\* await Chamber.findByPk(id); 404 if missing
AddReadingFindChamber(p) ==
    /\ proc[p].op = "addReading" /\ proc[p].pc = "findChamber"
    /\ proc' = [proc EXCEPT ![p] =
            IF proc[p].chamberId \in ChamberIds
            THEN [@ EXCEPT !.pc = "calibrate"]
            ELSE [@ EXCEPT !.pc = "done", !.error = "Chamber not found"]]
    /\ UNCHANGED <<alarms, chamberSettings, plcBits, now, readings, calibrationPoints, plcVars, readerVars>>

\* await calibrationService.calibrateReading(id, o2Level)
AddReadingCalibrate(p) ==
    /\ proc[p].op = "addReading" /\ proc[p].pc = "calibrate"
    /\ LET ids == ActiveCalibrationIds(proc[p].chamberId) IN
         IF ids = {}
         THEN proc' = [proc EXCEPT ![p].pc = "create",
                                   ![p].calibrated = calibrateReading(0, proc[p].o2Level)]
         ELSE \E i \in ids :
                proc' = [proc EXCEPT ![p].pc = "create",
                                     ![p].calibrated = calibrateReading(i, proc[p].o2Level)]
    /\ UNCHANGED <<alarms, chamberSettings, plcBits, now, readings, calibrationPoints, plcVars, readerVars>>

\* await O2Reading.create({ chamberId, o2Level: calibratedO2Level, sensorStatus, ... })
AddReadingCreate(p) ==
    /\ proc[p].op = "addReading" /\ proc[p].pc = "create"
    /\ readings' = Append(readings,
            [chamberId |-> proc[p].chamberId, o2Level |-> proc[p].calibrated,
             sensorStatus |-> proc[p].sensorStatus])
    /\ proc' = [proc EXCEPT ![p].pc = "respond", ![p].alarm = Len(readings) + 1]
    /\ UNCHANGED <<alarms, chamberSettings, plcBits, now, calibrationPoints, plcVars, readerVars>>

\* the reading is read back, broadcast (broadcastNewReading) and returned
AddReadingRespond(p) ==
    /\ proc[p].op = "addReading" /\ proc[p].pc = "respond"
    /\ proc' = [proc EXCEPT ![p].pc = "done",
                            ![p].result = << proc[p].alarm >>,
                            ![p].out = IF socketHandler
                                       THEN << Event("new-reading", proc[p].alarm, NoRegister, NULL) >>
                                       ELSE << >>]
    /\ UNCHANGED <<alarms, chamberSettings, plcBits, now, readings, calibrationPoints, plcVars, readerVars>>

----------------------------------------------------------------------------
(* Environment *)

\* SettingsController.updateChamberSettings with isCalibrationRequired in the body
UpdateChamberSettings ==
    /\ \E b \in BOOLEAN :
         /\ chamberSettings[1].isCalibrationRequired # b
         /\ chamberSettings' = [chamberSettings EXCEPT ![1].isCalibrationRequired = b]
    /\ UNCHANGED <<alarms, plcBits, now, proc, readings, calibrationPoints, plcVars, readerVars>>

\* time passes
Tick ==
    /\ now < MaxNow
    /\ now' = now + 1
    /\ UNCHANGED <<alarms, chamberSettings, plcBits, proc, readings, calibrationPoints, plcVars, readerVars>>

----------------------------------------------------------------------------
(* PLCService *)

BusyError == "PLC operation already in progress"

\* the exchange of call c is between setting and clearing isWorking
InFlight(c) == call[c].pc \in {"connecting", "waiting", "sleeping"}

\* call c ends as rec; the writers waiting for it stop waiting for it
FinishCall(c, rec) ==
    [d \in CallIds |-> IF d = c THEN rec ELSE [call[d] EXCEPT !.blockers = @ \ {c}]]

\* the data handler's decoding: sensorData after frame f arrived
Decode(f, old) == IF f.sig THEN f.samples ELSE old

\* this.sensorData.slice(0, numValues)
Slice(data, n) == SubSeq(data, 1, Min(n, Len(data)))

\* the object the catch block of readRawValues / writeData returns
Failed(c, msg) ==
    [call[c] EXCEPT !.pc = "done", !.result = "fail", !.error = msg,
                    !.sock = IF @ = "none" THEN "none" ELSE "closed",
                    !.sockTimer = FALSE]

\* variant: a read that finds isWorking set waits for it to clear, as writeData does
ReadRawValuesEntryQueues(c) ==
    /\ call[c].pc = "idle"
    /\ \E n \in NumValuesInputs :
         IF demo = 1
         THEN /\ \E d \in [1..n -> DemoValues] :
                   call' = [call EXCEPT ![c] =
                      [NoCall EXCEPT !.op = "read", !.pc = "done", !.numValues = n,
                          !.result = "ok",
                          !.data = [i \in 1..n |-> IF i - 1 = 10 THEN 0 ELSE d[i]]]]
              /\ UNCHANGED <<isWorking, isConnectedPLC>>
         ELSE IF isWorking
         THEN /\ call' = [call EXCEPT ![c] =
                    [NoCall EXCEPT !.op = "read", !.pc = "polling", !.numValues = n]]
              /\ UNCHANGED <<isWorking, isConnectedPLC>>
         ELSE /\ isWorking' = TRUE
              /\ call' = [call EXCEPT ![c] =
                    [NoCall EXCEPT !.op = "read", !.pc = "connecting",
                        !.sock = "connecting", !.sockTimer = TRUE, !.numValues = n]]
              /\ UNCHANGED isConnectedPLC
    /\ UNCHANGED <<demo, sensorData, zombies>>

\* variant: demo data without the zero at index 10
ReadRawValuesEntryDemoNoZero(c) ==
    /\ call[c].pc = "idle"
    /\ \E n \in NumValuesInputs \cup (IF demo = 1 THEN {11, 12} ELSE {}) :
         IF demo = 1
         THEN /\ \E d \in [1..n -> DemoValues] :
                   call' = [call EXCEPT ![c] =
                      [NoCall EXCEPT !.op = "read", !.pc = "done", !.numValues = n,
                          !.result = "ok",
                          !.data = d]]
              /\ UNCHANGED <<isWorking, isConnectedPLC>>
         ELSE IF isWorking
         THEN \* throw new Error(...) lands in the catch block
              /\ isWorking' = FALSE
              /\ isConnectedPLC' = 0
              /\ call' = [call EXCEPT ![c] =
                    [Failed(c, BusyError) EXCEPT !.op = "read", !.numValues = n]]
         ELSE /\ isWorking' = TRUE
              /\ call' = [call EXCEPT ![c] =
                    [NoCall EXCEPT !.op = "read", !.pc = "connecting",
                        !.sock = "connecting", !.sockTimer = TRUE, !.numValues = n]]
              /\ UNCHANGED isConnectedPLC
    /\ UNCHANGED <<demo, sensorData, zombies>>

\* readRawValues(numValues) up to its first await
ReadRawValuesEntry(c) ==
    /\ call[c].pc = "idle"
    /\ \E n \in NumValuesInputs \cup (IF demo = 1 THEN {11, 12} ELSE {}) :
         IF demo = 1
         THEN /\ \E d \in [1..n -> DemoValues] :
                   call' = [call EXCEPT ![c] =
                      [NoCall EXCEPT !.op = "read", !.pc = "done", !.numValues = n,
                          !.result = "ok",
                          !.data = [i \in 1..n |-> IF i - 1 = 10 THEN 0 ELSE d[i]]]]
              /\ UNCHANGED <<isWorking, isConnectedPLC>>
         ELSE IF isWorking
         THEN \* throw new Error(...) lands in the catch block
              /\ isWorking' = FALSE
              /\ isConnectedPLC' = 0
              /\ call' = [call EXCEPT ![c] =
                    [Failed(c, BusyError) EXCEPT !.op = "read", !.numValues = n]]
         ELSE /\ isWorking' = TRUE
              /\ call' = [call EXCEPT ![c] =
                    [NoCall EXCEPT !.op = "read", !.pc = "connecting",
                        !.sock = "connecting", !.sockTimer = TRUE, !.numValues = n]]
              /\ UNCHANGED isConnectedPLC
    /\ UNCHANGED <<demo, sensorData, zombies>>

\* a caller other than the periodic reader calls readRawValues
CallReadRawValues(c) ==
    /\ ReadRawValuesEntry(c)
    /\ UNCHANGED <<alarmVars, readerVars>>

\* writeData(registerAddress, value) up to its first await
CallWriteData(c) ==
    /\ call[c].pc = "idle"
    /\ IF demo = 1
       THEN /\ call' = [call EXCEPT ![c] =
                    [NoCall EXCEPT !.op = "write", !.pc = "done", !.result = "ok"]]
            /\ UNCHANGED isWorking
       ELSE IF isWorking
       THEN /\ call' = [call EXCEPT ![c] =
                    [NoCall EXCEPT !.op = "write", !.pc = "polling",
                        !.blockers = { r \in CallIds : call[r].op = "read" /\ InFlight(r) }]]
            /\ UNCHANGED isWorking
       ELSE /\ isWorking' = TRUE
            /\ call' = [call EXCEPT ![c] =
                    [NoCall EXCEPT !.op = "write", !.pc = "connecting",
                        !.sock = "connecting", !.sockTimer = TRUE]]
    /\ UNCHANGED <<demo, isConnectedPLC, sensorData, zombies, alarmVars, readerVars>>

\* writeData: the 50 ms sleep of the wait loop is over and isWorking is clear
WritePoll(c) ==
    /\ call[c].pc = "polling"
    /\ ~isWorking
    /\ isWorking' = TRUE
    /\ call' = [call EXCEPT ![c].pc = "connecting", ![c].sock = "connecting",
                             ![c].sockTimer = TRUE]
    /\ UNCHANGED <<demo, isConnectedPLC, sensorData, zombies, alarmVars, readerVars>>

\* the socket's 'ready' event; the caller resumes and writes its frame
SockReady(c) ==
    /\ call[c].sock = "connecting"
    /\ isConnectedPLC' = 1
    /\ call' = [call EXCEPT ![c] =
            IF call[c].op = "read"
            THEN [@ EXCEPT !.pc = "waiting", !.sock = "open",
                           !.timer = TRUE, !.checking = TRUE]
            ELSE [@ EXCEPT !.pc = "sleeping", !.sock = "open"]]
    /\ UNCHANGED <<demo, isWorking, sensorData, zombies, alarmVars, readerVars>>

\* the call's await of openClientConnection is rejected: its catch block runs
ConnectFailed(c, msg) ==
    /\ isWorking' = FALSE
    /\ isConnectedPLC' = IF call[c].op = "read" THEN 0 ELSE 2
    /\ call' = FinishCall(c, Failed(c, msg))

\* the socket's 'error' event
SockError(c) ==
    /\ call[c].sock \in {"connecting", "open", "ended"}
    /\ IF call[c].pc = "connecting"
       THEN ConnectFailed(c, "Connection error")
       ELSE /\ isConnectedPLC' = 2
            /\ call' = [call EXCEPT ![c].sock = "closed", ![c].sockTimer = FALSE]
            /\ UNCHANGED isWorking
    /\ UNCHANGED <<demo, sensorData, zombies, alarmVars, readerVars>>

\* the socket has been idle for connectionTimeout (250 ms); a write's socket is
\* destroyed after 100 ms, before that
SockTimeout(c) ==
    /\ call[c].sockTimer
    /\ call[c].sock \in {"connecting", "open"}
    /\ call[c].pc # "sleeping"
    /\ IF call[c].pc = "connecting"
       THEN ConnectFailed(c, "Connection timeout")
       ELSE /\ isConnectedPLC' = 2
            /\ call' = [call EXCEPT ![c].sock = "ended", ![c].sockTimer = FALSE]
            /\ UNCHANGED isWorking
    /\ UNCHANGED <<demo, sensorData, zombies, alarmVars, readerVars>>

\* the socket's 'data' event: client.destroy() and the parse
SockData(c) ==
    /\ call[c].sock \in {"open", "ended"}
    /\ \E f \in (IF call[c].op = "read" THEN ReadResponses ELSE WriteResponses) :
         sensorData' = Decode(f, sensorData)
    /\ call' = [call EXCEPT ![c].sock = "closed", ![c].sockTimer = FALSE]
    /\ UNCHANGED <<demo, isWorking, isConnectedPLC, zombies, alarmVars, readerVars>>

\* the socket's 'data' event of a read with a response that does not start with
\* the signature: client.destroy(), nothing is parsed and sensorData is left as it is
SockUnsigned(c) ==
    /\ call[c].op = "read"
    /\ call[c].sock \in {"open", "ended"}
    /\ sensorData' = Decode([sig |-> FALSE, samples |-> << >>], sensorData)
    /\ call' = [call EXCEPT ![c].sock = "closed", ![c].sockTimer = FALSE,
                             ![c].received = "unsigned"]
    /\ UNCHANGED <<demo, isWorking, isConnectedPLC, zombies, alarmVars, readerVars>>

\* the PLC closes the connection without answering
SockClose(c) ==
    /\ call[c].sock \in {"open", "ended"}
    /\ call[c].pc # "sleeping"
    /\ call' = [call EXCEPT ![c].sock = "closed", ![c].sockTimer = FALSE]
    /\ UNCHANGED <<demo, isWorking, isConnectedPLC, sensorData, zombies, alarmVars, readerVars>>

\* readRawValues: a tick of the 50 ms checkData interval that sees samples
ReadCheck(c) ==
    /\ call[c].checking
    /\ Len(sensorData) > 0
    /\ isWorking' = FALSE
    /\ call' = FinishCall(c,
            [call[c] EXCEPT !.pc = "done", !.result = "ok", !.timer = FALSE,
                            !.checking = FALSE,
                            !.data = Slice(sensorData, call[c].numValues)])
    /\ UNCHANGED <<demo, isConnectedPLC, sensorData, zombies, alarmVars, readerVars>>

\* readRawValues: the 1000 ms timeout; the socket's 250 ms timeout fired before,
\* unless the socket was closed; checkData is not cleared and keeps running
ReadTimeout(c) ==
    /\ call[c].timer
    /\ ~(call[c].sock = "open" /\ call[c].sockTimer)
    /\ isWorking' = FALSE
    /\ zombies' = Min(zombies + 1, MaxZombies)
    /\ call' = FinishCall(c,
            [call[c] EXCEPT !.pc = "done", !.result = "throw",
                            !.error = "Read operation timeout",
                            !.timer = FALSE, !.checking = FALSE])
    /\ UNCHANGED <<demo, isConnectedPLC, sensorData, alarmVars, readerVars>>

\* a checkData interval of a read that timed out sees samples and clears itself
ZombieCheck ==
    /\ zombies > 0
    /\ Len(sensorData) > 0
    /\ isWorking' = FALSE
    /\ zombies' = zombies - 1
    /\ UNCHANGED <<demo, isConnectedPLC, sensorData, call, alarmVars, readerVars>>

\* writeData: the 100 ms sleep is over: client.destroy(), isWorking = false
WriteFinish(c) ==
    /\ call[c].pc = "sleeping"
    /\ isWorking' = FALSE
    /\ call' = FinishCall(c,
            [call[c] EXCEPT !.pc = "done", !.result = "ok", !.sock = "closed",
                            !.sockTimer = FALSE])
    /\ UNCHANGED <<demo, isConnectedPLC, sensorData, zombies, alarmVars, readerVars>>

\* the caller has its result and the call's socket is gone
Release(c) ==
    /\ call[c].pc = "done"
    /\ call[c].sock \in {"none", "closed"}
    /\ c \in CycleIds => cycle[c].pc # "reading"
    /\ call' = [call EXCEPT ![c] = NoCall]
    /\ UNCHANGED <<demo, isWorking, isConnectedPLC, sensorData, zombies, alarmVars, readerVars>>

\* calculateLRC(buf): the characters of (sum of the bytes & 0xff).toString(16),
\* one character below 0x10; digits 0-9 are 48..57, a-f are 97..102
RECURSIVE SumBytes(_)
SumBytes(buf) == IF buf = << >> THEN 0 ELSE Head(buf) + SumBytes(Tail(buf))

\* n.toString(16) of an integer n >= 0: no leading zeros, lowercase
RECURSIVE ToString16(_)
ToString16(n) ==
    LET Digit(d) == IF d < 10 THEN 48 + d ELSE 87 + d
    IN  IF n < 16 THEN << Digit(n) >>
        ELSE Append(ToString16(n \div 16), Digit(n % 16))

\* String.prototype.toUpperCase on characters a-z (97..122)
ToUpperCase(s) == [i \in 1..Len(s) |-> IF s[i] \in 97..122 THEN s[i] - 32 ELSE s[i]]

calculateLRC(buf) == ToString16(SumBytes(buf) % 256)

\* variant: the hex digits of d without the padding to four characters
d2hUnpadded(d) == ToString16(d)

\* ('0000' + (+d).toString(16)).slice(-4)
d2h(d) ==
    LET s == <<48, 48, 48, 48>> \o ToString16(d)
    IN  SubSeq(s, Len(s) - 3, Len(s))

\* register addresses "M00407", "R02001", "000000", "WWWWWW" and values to write
\* (43981 is 0xABCD, 109517 is 0x1ABCD)
RegisterAddresses == { <<77, 48, 48, 52, 48, 55>>, <<82, 48, 50, 48, 48, 49>>,
                       <<48, 48, 48, 48, 48, 48>>, <<87, 87, 87, 87, 87, 87>> }
WriteValues == {0, 1, 7, 255, 43981, 65535, 65536, 109517}

\* the request built by readRawValues (header, 'R02100') and by
\* writeData(registerAddress, value) (header, address, d2h(value)): bufA, then
\* LRC[0], LRC[1] and 0x03. LRC[1].charCodeAt() of a one-character LRC is a
\* TypeError, which the catch block turns into a failed call.
BuildFrame(c) ==
    /\ call[c].pc = "idle"
    /\ \/ LET bufA == <<2, 48, 49, 52, 54, 48, 50>> \o <<82, 48, 50, 49, 48, 48>>
               LRC == calculateLRC(bufA)
           IN  call' = [call EXCEPT ![c] =
                   IF Len(LRC) < 2
                   THEN [NoCall EXCEPT !.op = "read", !.pc = "done", !.result = "fail",
                                       !.error = "TypeError"]
                   ELSE [NoCall EXCEPT !.op = "read", !.pc = "done",
                                       !.frame = bufA \o <<LRC[1], LRC[2], 3>>]]
       \/ \E registerAddress \in RegisterAddresses, value \in WriteValues :
           LET buf3 == ToUpperCase(d2h(value))
               bufA == <<2, 48, 49, 52, 55, 48, 49>> \o registerAddress \o buf3
               LRC == calculateLRC(bufA)
           IN  call' = [call EXCEPT ![c] =
                   IF Len(LRC) < 2
                   THEN [NoCall EXCEPT !.op = "write", !.pc = "done", !.value = value,
                                       !.result = "fail", !.error = "TypeError"]
                   ELSE [NoCall EXCEPT !.op = "write", !.pc = "done", !.value = value,
                                       !.frame = bufA \o <<LRC[1], LRC[2], 3>>]]
    /\ UNCHANGED <<demo, isWorking, isConnectedPLC, sensorData, zombies, alarmVars, readerVars>>

PLCStep(c) ==
    \/ CallReadRawValues(c)
    \/ CallWriteData(c)
    \/ WritePoll(c)
    \/ SockReady(c)
    \/ SockError(c)
    \/ SockTimeout(c)
    \/ SockData(c)
    \/ SockClose(c)
    \/ ReadCheck(c)
    \/ ReadTimeout(c)
    \/ WriteFinish(c)
    \/ Release(c)

----------------------------------------------------------------------------
(* PeriodicPLCReader *)

\* the invocations of readAndUpdateChambers that have not returned
CyclesInProgress == { k \in CycleIds : cycle[k].pc # "idle" }

\* readAndUpdateChambers up to its first suspension: the call of readRawValues(2);
\* the awaited result, also of a call that failed at once, is taken up in a later turn
CycleBegin(k) ==
    /\ cycle[k].pc = "idle"
    /\ successfulReads + failedReads + Cardinality(CyclesInProgress) < MaxReads
    /\ ReadRawValuesEntry(k)
    /\ cycle' = [cycle EXCEPT ![k].pc = "reading"]
    /\ UNCHANGED <<successfulReads, failedReads>>

\* variant: start() without its isRunning check
StartUnguarded ==
    /\ isRunning' = TRUE
    /\ intervalId' = interval
    /\ liveTimers' = liveTimers + 1
    /\ \E k \in CycleIds : CycleBegin(k)
    /\ UNCHANGED <<interval, lastRawFromPLC, alarmVars>>

\* start(); on a running reader it returns at once
Start ==
    /\ ~isRunning
    /\ isRunning' = TRUE
    /\ intervalId' = interval
    /\ liveTimers' = liveTimers + 1
    /\ \E k \in CycleIds : CycleBegin(k)
    /\ UNCHANGED <<interval, lastRawFromPLC, alarmVars>>

\* variant: stop() without clearInterval
StopKeepsTimer ==
    /\ isRunning
    /\ isRunning' = FALSE
    /\ intervalId' = 0
    /\ UNCHANGED <<interval, liveTimers, successfulReads, failedReads, cycle,
                   lastRawFromPLC, alarmVars, plcVars>>

\* stop(); on a stopped reader it returns at once
Stop ==
    /\ isRunning
    /\ isRunning' = FALSE
    /\ intervalId' = 0
    /\ liveTimers' = IF intervalId # 0 THEN liveTimers - 1 ELSE liveTimers
    /\ UNCHANGED <<interval, successfulReads, failedReads, cycle, lastRawFromPLC,
                   alarmVars, plcVars>>

\* the intervals asked for through POST /api/plc/periodic-reader/interval
IntervalInputs == {99, 100, 1000}

\* variant: updateInterval without its lower limit
UpdateIntervalUnchecked ==
    \E newInterval \in IntervalInputs :
        /\ interval' = newInterval
        /\ IF isRunning
           THEN /\ intervalId' = newInterval
                /\ \E k \in CycleIds : CycleBegin(k)
                /\ UNCHANGED <<isRunning, liveTimers, lastRawFromPLC, alarmVars>>
           ELSE UNCHANGED <<isRunning, intervalId, liveTimers, successfulReads,
                            failedReads, cycle, lastRawFromPLC, alarmVars, plcVars>>

\* updateInterval(newInterval): below 100 it throws; on a running reader stop()
\* clears the timer and start() installs one with the new period and runs a cycle
UpdateInterval ==
    \E newInterval \in IntervalInputs :
        IF newInterval < 100
        THEN UNCHANGED vars
        ELSE /\ interval' = newInterval
             /\ IF isRunning
                THEN /\ intervalId' = newInterval
                     /\ liveTimers' = (IF intervalId # 0 THEN liveTimers - 1 ELSE liveTimers) + 1
                     /\ \E k \in CycleIds : CycleBegin(k)
                     /\ UNCHANGED <<isRunning, lastRawFromPLC, alarmVars>>
                ELSE UNCHANGED <<isRunning, intervalId, liveTimers, successfulReads,
                                 failedReads, cycle, lastRawFromPLC, alarmVars, plcVars>>

\* the interval timer fires: this.readAndUpdateChambers(), not awaited
TimerTick ==
    /\ liveTimers > 0
    /\ \E k \in CycleIds : CycleBegin(k)
    /\ UNCHANGED <<isRunning, interval, intervalId, liveTimers, lastRawFromPLC, alarmVars>>

\* variant: the read is counted as successful before its result is looked at
CycleAfterReadCountsFirst(k) ==
    /\ cycle[k].pc = "reading"
    /\ call[k].pc = "done"
    /\ successfulReads' = successfulReads + 1
    /\ IF call[k].result = "ok"
       THEN /\ cycle' = [cycle EXCEPT ![k].pc = "findAll", ![k].rawData = call[k].data]
            /\ UNCHANGED failedReads
       ELSE /\ failedReads' = failedReads + 1
            /\ cycle' = [cycle EXCEPT ![k] = NoCycle]
    /\ UNCHANGED <<isRunning, interval, intervalId, liveTimers, lastRawFromPLC, alarmVars, plcVars>>

\* readRawValues has settled: the cycle counts the read and asks for the chambers
CycleAfterRead(k) ==
    /\ cycle[k].pc = "reading"
    /\ call[k].pc = "done"
    /\ IF call[k].result = "ok"
       THEN /\ successfulReads' = successfulReads + 1
            /\ cycle' = [cycle EXCEPT ![k].pc = "findAll", ![k].rawData = call[k].data]
            /\ UNCHANGED failedReads
       ELSE /\ failedReads' = failedReads + 1
            /\ cycle' = [cycle EXCEPT ![k] = NoCycle]
            /\ UNCHANGED successfulReads
    /\ UNCHANGED <<isRunning, interval, intervalId, liveTimers, lastRawFromPLC, alarmVars, plcVars>>

\* the chambers a cycle with samples rawData updates
Updatable(rawData) ==
    { ch \in ReaderChamberIds :
        /\ ch \in DOMAIN chamberSensorMapping
        /\ chamberSensorMapping[ch] + 1 <= Len(rawData) }

\* Chamber.findAll({ where: { isActive: true } }) returns; the updates are issued
CycleFindAll(k) ==
    /\ cycle[k].pc = "findAll"
    /\ cycle' = [cycle EXCEPT ![k].pc = "updating",
                              ![k].pending = Updatable(cycle[k].rawData)]
    /\ UNCHANGED <<isRunning, interval, intervalId, liveTimers, successfulReads, failedReads,
                   lastRawFromPLC, alarmVars, plcVars>>

\* Chamber.findAll fails: the outer catch counts a failed read
CycleFindAllFails(k) ==
    /\ cycle[k].pc = "findAll"
    /\ failedReads' = failedReads + 1
    /\ cycle' = [cycle EXCEPT ![k] = NoCycle]
    /\ UNCHANGED <<isRunning, interval, intervalId, liveTimers, successfulReads,
                   lastRawFromPLC, alarmVars, plcVars>>

\* socketHandler.broadcastChamberRawValue(chamber.id, {...})
RawValueEvent(ch, rawValue, sensorIndex) ==
    [chamberId |-> ch, lastRawFromPLC |-> rawValue, sensorIndex |-> sensorIndex]

\* variant: every chamber takes the first sample
CycleUpdateFirstSample(k) ==
    /\ cycle[k].pc = "updating"
    /\ \E ch \in cycle[k].pending :
         /\ lastRawFromPLC' = [lastRawFromPLC EXCEPT ![ch] = cycle[k].rawData[1]]
         /\ cycle' = [cycle EXCEPT ![k].pending = @ \ {ch},
                ![k].published = Append(@, RawValueEvent(ch, cycle[k].rawData[1],
                                                          chamberSensorMapping[ch]))]
    /\ UNCHANGED <<isRunning, interval, intervalId, liveTimers, successfulReads, failedReads,
                   alarmVars, plcVars>>

\* chamber.update({ lastRawFromPLC: rawValue }) of one chamber, then its broadcast
CycleUpdate(k) ==
    /\ cycle[k].pc = "updating"
    /\ \E ch \in cycle[k].pending :
         LET sensorIndex == chamberSensorMapping[ch]
             rawValue == cycle[k].rawData[sensorIndex + 1] IN
         /\ lastRawFromPLC' = [lastRawFromPLC EXCEPT ![ch] = rawValue]
         /\ cycle' = [cycle EXCEPT ![k].pending = @ \ {ch},
                ![k].published = IF socketHandler
                                 THEN Append(@, RawValueEvent(ch, rawValue, sensorIndex))
                                 ELSE @]
    /\ UNCHANGED <<isRunning, interval, intervalId, liveTimers, successfulReads, failedReads,
                   alarmVars, plcVars>>

\* Promise.all(updatePromises) resolves: the cycle returns
CycleEnd(k) ==
    /\ cycle[k].pc = "updating"
    /\ cycle[k].pending = {}
    /\ cycle' = [cycle EXCEPT ![k] = NoCycle]
    /\ UNCHANGED <<isRunning, interval, intervalId, liveTimers, successfulReads, failedReads,
                   lastRawFromPLC, alarmVars, plcVars>>

ReaderStep(k) ==
    \/ CycleAfterRead(k)
    \/ CycleFindAll(k)
    \/ CycleFindAllFails(k)
    \/ CycleUpdate(k)
    \/ CycleEnd(k)
    \/ SockReady(k)
    \/ SockError(k)
    \/ SockTimeout(k)
    \/ SockData(k)
    \/ SockClose(k)
    \/ ReadCheck(k)
    \/ ReadTimeout(k)
    \/ Release(k)

----------------------------------------------------------------------------
(* Specifications *)

\* checkForAlarms and resolveAlarms
EvalStep(p, Readings) ==
    \/ CallCheckForAlarms(p, Readings)
    \/ CallResolveAlarms(p, Readings)
    \/ LoadSettings(p)
    \/ CheckFind(p)
    \/ CheckCreate(p)
    \/ CheckEmit(p)
    \/ ResolveFind(p)
    \/ ResolveUpdate(p)
    \/ ResolveEmit(p)

\* muteAlarm
MuteStep(p, Untils) ==
    \/ CallMuteAlarm(p, Untils)
    \/ MuteFind(p)
    \/ MuteUpdate(p)
    \/ MuteEmit(p)

\* resolveAlarm
ResolveAlarmStep(p) ==
    \/ CallResolveAlarm(p)
    \/ ResolveAlarmFind(p)
    \/ ResolveAlarmUpdate(p)
    \/ ResolveAlarmEmit(p)

\* alarm service calls of two callers interleave at their awaits
Next ==
    \E p \in Procs :
        \/ EvalStep(p, RaceReadings)
        \/ MuteStep(p, {NULL})
        \/ ResolveAlarmStep(p)
        \/ Return(p)

Spec == Init /\ [][Next]_vars

\* one caller evaluates readings and resolves alarms: every call completes before
\* the next one starts
NextSeq ==
    \/ \E p \in SeqProcs :
          \/ EvalStep(p, SeqReadings)
          \/ RepeatCheckForAlarms(p, SeqReadings)
          \/ ResolveAlarmStep(p)
          \/ Return(p)
    \/ UpdateChamberSettings

SpecSeq == Init /\ [][NextSeq]_vars

\* one caller evaluates readings of chambers 1 and 2, each by checkForAlarms
\* followed by resolveAlarms with the same reading; nothing is muted or resolved
\* by hand
NextEval ==
    \E p \in SeqProcs :
        \/ CallCheckForAlarms(p, ({2} \X {15, 20, 25} \X {"normal"})
                                    \cup ({1} \X {15, 25} \X {"normal"}))
        \/ LoadSettings(p)
        \/ CheckFind(p)
        \/ CheckCreate(p)
        \/ CheckEmit(p)
        \/ /\ proc[p].pc = "done" /\ proc[p].op = "checkForAlarms"
           /\ proc' = [proc EXCEPT ![p] =
                    [NewCall("resolveAlarms") EXCEPT !.pc = "settings",
                        !.chamberId = proc[p].chamberId, !.o2Level = proc[p].o2Level,
                        !.sensorStatus = proc[p].sensorStatus]]
           /\ UNCHANGED <<alarms, chamberSettings, plcBits, now, readings,
                          calibrationPoints, plcVars, readerVars>>
        \/ ResolveFind(p)
        \/ ResolveUpdate(p)
        \/ ResolveEmit(p)
        \/ proc[p].op = "resolveAlarms" /\ Return(p)

SpecEval == Init /\ [][NextEval]_vars

\* one caller raises, mutes and resolves alarms while time passes
NextTimed ==
    \/ \E p \in SeqProcs :
          \/ CallCheckForAlarms(p, TimedReadings)
          \/ LoadSettings(p)
          \/ CheckFind(p)
          \/ CheckCreate(p)
          \/ CheckEmit(p)
          \/ MuteStep(p, MutedUntilInputs)
          \/ ResolveAlarmStep(p)
          \/ Return(p)
    \/ Tick

SpecTimed == Init /\ [][NextTimed]_vars

\* one caller, with an io.emit that may throw
NextFaulty ==
    \E p \in SeqProcs :
        \/ EvalStep(p, FaultyReadings)
        \/ MuteStep(p, {NULL})
        \/ ResolveAlarmStep(p)
        \/ EmitFails(p)
        \/ Return(p)

SpecFaulty == Init /\ [][NextFaulty]_vars

\* calibrations of the same chamber and of different chambers overlap
RaceCalibrations == {<<1, 1, 2, 3, 21>>, <<1, 1, 3, 4, 50>>, <<2, 1, 2, 3, 21>>,
                     <<1, 2, 1, 3, 21>>, <<1, Missing, 2, 3, 21>>}

NextCalibration ==
    \E p \in Procs :
        \/ CalibrationStep(p, RaceCalibrations)
        \/ Return(p)

SpecCalibration == Init /\ [][NextCalibration]_vars

\* one caller of the calibration service, with a record store that may fail
NextCalibrationFaulty ==
    \E p \in SeqProcs :
        \/ CalibrationStep(p, RaceCalibrations)
        \/ CalibrationStoreFails(p)
        \/ Return(p)

SpecCalibrationFaulty == Init /\ [][NextCalibrationFaulty]_vars

\* one caller of the calibration service, with every triple of points
SeqCalibrations == ChamberIds \X (RawValues \cup {Missing}) \X (RawValues \cup {Missing})
                      \X (RawValues \cup {Missing}) \X {21}

NextCalibrationSeq ==
    \E p \in SeqProcs :
        \/ CalibrationStep(p, SeqCalibrations)
        \/ CallCalibrateReading(p)
        \/ CalibrateReadingLookup(p)
        \/ CalibrateReadingLookupFails(p)
        \/ Return(p)

SpecCalibrationSeq == Init /\ [][NextCalibrationSeq]_vars

\* direct calls of the two pure functions of the calibration service
NextCoefficients ==
    \E p \in SeqProcs :
        \/ CallCalculateCoefficients(p)
        \/ RunCalculateCoefficients(p)
        \/ RunRoundTrip(p)
        \/ CallApplyCalibration(p)
        \/ RunApplyCalibration(p)
        \/ Return(p)

SpecCoefficients == Init /\ [][NextCoefficients]_vars

\* readings are recorded through POST /chambers/:id/readings, for a chamber 1
\* calibrated with slope 0.0042 and offset 0
InitReading ==
    /\ InitExceptCalibration
    /\ demo = 0
    /\ calibrationPoints = << [chamberId |-> 1, isActive |-> TRUE,
                               calibrationSlope |-> 4200, calibrationOffset |-> 0] >>

NextReading ==
    \E p \in SeqProcs :
        \/ CallAddReading(p)
        \/ AddReadingFindChamber(p)
        \/ AddReadingCalibrate(p)
        \/ AddReadingCreate(p)
        \/ AddReadingRespond(p)
        \/ Return(p)

\* every request that was accepted is served to its end
SpecReading == InitReading /\ [][NextReading]_vars /\ WF_vars(NextReading)

\* callers of the PLC service (HTTP handlers, the periodic reader) overlap
NextPLC ==
    \/ \E c \in CallIds : PLCStep(c)
    \/ ZombieCheck

SpecPLC == Init /\ [][NextPLC]_vars

\* two callers, with the unsigned responses noted
NextUnsigned ==
    \/ \E c \in {1, 2} : PLCStep(c) \/ SockUnsigned(c)
    \/ ZombieCheck

SpecUnsigned == Init /\ [][NextUnsigned]_vars

\* the same runs, in which the timers of a call fire when they are due: the 250 ms
\* timeout of its socket and the 1000 ms timeout of its wait for the response
SpecUnsignedFair ==
    /\ SpecUnsigned
    /\ \A c \in {1, 2} : WF_vars(SockTimeout(c)) /\ WF_vars(ReadTimeout(c))

\* one caller of the service in demo mode
NextDemo == \E c \in {1} : CallReadRawValues(c) \/ CallWriteData(c) \/ Release(c)

SpecDemo == InitDemo /\ [][NextDemo]_vars

\* the request frames of the calls
NextFrames == \E c \in CallIds : BuildFrame(c) \/ Release(c)

SpecFrames == Init /\ [][NextFrames]_vars

\* the periodic reader over the PLC service
NextReader ==
    \/ Start
    \/ Stop
    \/ TimerTick
    \/ \E k \in CycleIds : ReaderStep(k)
    \/ ZombieCheck

SpecReader == Init /\ [][NextReader]_vars

\* the steps of a cycle whose PLC answers in time or refuses the connection
LifecycleStep(k) ==
    \/ CycleAfterRead(k)
    \/ CycleFindAll(k)
    \/ CycleUpdate(k)
    \/ CycleEnd(k)
    \/ SockReady(k)
    \/ SockError(k)
    \/ SockData(k)
    \/ SockClose(k)
    \/ ReadCheck(k)
    \/ Release(k)

\* the reader is started, stopped and given new intervals while its cycles run
NextLifecycle ==
    \/ Start
    \/ Stop
    \/ UpdateInterval
    \/ TimerTick
    \/ \E k \in CycleIds : LifecycleStep(k)

SpecLifecycle == Init /\ [][NextLifecycle]_vars

----------------------------------------------------------------------------
(* Properties *)

\* the register the alarm of a chamber is signalled on
ClaimedRegister(chamberId) ==
    CASE chamberId = 1 -> "M00407"
      [] chamberId = 2 -> "M00408"
      [] OTHER -> "none"

HasEvent(out, e) == \E i \in 1..Len(out) : out[i] = e
WriteBits(out) == { out[i] : i \in { j \in 1..Len(out) : out[j].type = "writeBit" } }
Returned(c) == { c.result[j] : j \in 1..Len(c.result) }

\* C1: in every reachable state, whatever the interleaving of checkForAlarms,
\* resolveAlarms, muteAlarm and resolveAlarm calls, at most one alarm row with
\* isActive = true exists per (chamberId, alarmType) pair.
C1_AtMostOneActivePerPair ==
    \A ch \in ChamberIds, k \in 1..NumKinds :
        Cardinality({ i \in 1..Len(alarms) :
                        /\ alarms[i].chamberId = ch
                        /\ alarms[i].alarmType = AlarmTypes[k]
                        /\ alarms[i].isActive }) <= 1

\* C2: a checkForAlarms call above alarmLevelHigh that directly follows a completed
\* checkForAlarms call above alarmLevelHigh for the same chamber creates no high_o2
\* row, publishes no trigger event for one and issues no PLC write, and exactly one
\* high_o2 alarm of the chamber is active afterwards; with the calibration flag as
\* it was at the first call, it creates and publishes nothing at all.
C2_SecondCheckIsIdempotent ==
    \A p \in Procs :
        LET c == proc[p] IN
        ( /\ c.op = "checkForAlarms" /\ c.pc = "done"
          /\ c.prev.op = "checkForAlarms" /\ c.prev.chamberId = c.chamberId
          /\ c.prev.high
          /\ c.settings.found /\ c.o2Level > c.settings.alarmLevelHigh )
        => /\ \A i \in Returned(c) : alarms[i].alarmType # "high_o2"
           /\ \A j \in 1..Len(c.out) :
                 c.out[j].type = "alarm-triggered"
                    => alarms[c.out[j].alarm].alarmType # "high_o2"
           /\ WriteBits(c.out) = {}
           /\ Cardinality({ i \in 1..Len(alarms) :
                             /\ alarms[i].chamberId = c.chamberId
                             /\ alarms[i].alarmType = "high_o2"
                             /\ alarms[i].isActive }) = 1
           /\ (c.prev.calReq = c.settings.isCalibrationRequired
                 => c.result = << >> /\ c.out = << >>)

\* a second call above the threshold has returned, having created nothing
C2_Witness ==
    \E p \in Procs :
        LET c == proc[p] IN
        /\ c.op = "checkForAlarms" /\ c.pc = "done"
        /\ c.prev.op = "checkForAlarms" /\ c.prev.high
        /\ c.settings.found /\ c.o2Level > c.settings.alarmLevelHigh
        /\ c.seen[1] = 1 /\ c.result = << >>
        /\ \E i \in 1..Len(alarms) :
              alarms[i].chamberId = c.chamberId /\ alarms[i].alarmType = "high_o2"

\* C3: outside demo mode at most one PLC exchange (a readRawValues or writeData
\* call between setting and clearing isWorking) is in flight at any time.
C3_OneExchangeInFlight ==
    demo = 0 => Cardinality({ c \in CallIds : InFlight(c) }) <= 1

\* an exchange is outstanding and a further readRawValues call has failed as busy
C4_Witness ==
    \E c, d \in CallIds :
        /\ c # d /\ InFlight(d)
        /\ call[c].op = "read" /\ call[c].pc = "done"
        /\ call[c].error = "PLC operation already in progress"

\* C4: a readRawValues call made outside demo mode while isWorking is set returns
\* in the same turn with the error 'PLC operation already in progress': it has no
\* socket, no timer and no polling loop, and it is not left waiting.
C4_BusyReadFailsAtOnce ==
    [][ \A c \in CallIds :
          ( /\ call[c].pc = "idle" /\ call'[c].op = "read"
            /\ isWorking /\ demo = 0 )
          => /\ call'[c].pc = "done"
             /\ call'[c].result = "fail"
             /\ call'[c].error = "PLC operation already in progress"
             /\ call'[c].sock = "none" /\ ~call'[c].sockTimer
             /\ ~call'[c].timer /\ ~call'[c].checking
             /\ call'[c].data = << >> /\ call'[c].blockers = {}
             /\ sensorData' = sensorData ]_vars

\* C5: a writeData call issued while a read is outstanding does not fail as busy,
\* and does not open its connection before every read that was outstanding when it
\* was issued has finished.
C5_WriteWaitsForRead ==
    \A c \in CallIds :
        call[c].op = "write"
        => /\ call[c].error # BusyError
           /\ call[c].blockers # {} => call[c].pc = "polling"

\* C6: at no time are two readAndUpdateChambers cycles in progress.
C6_CyclesSerialized ==
    Cardinality({ k \in CycleIds : cycle[k].pc # "idle" }) <= 1

\* C7: after a call has returned, for a chamber with settings:
\* checkForAlarms with o2Level > alarmLevelHigh that found no active high_o2 alarm
\* has created one (active, recording that level), published its trigger event and
\* written 1 to the chamber's register (M00407 for chamber 1, M00408 for chamber 2,
\* nothing for another chamber), and exactly one high_o2 alarm is active;
\* resolveAlarms with o2Level <= alarmLevelHigh that found an active high_o2 alarm
\* has resolved it (isActive false, resolvedAt set), published its resolution event
\* and written 0 to the same register;
\* a reading within the thresholds creates no high_o2 or low_o2 alarm and writes
\* nothing, and with nothing to create or resolve the call does nothing.
\* For a chamber other than 1 and 2 sendAlarmToPLC emits no write, and an
\* evaluation for it returns without creating, publishing or writing anything.
C7_HighAlarmLifecycle ==
    \A p \in Procs :
        LET c == proc[p]
            H == c.settings.alarmLevelHigh
            L == c.settings.alarmLevelLow
            reg == ClaimedRegister(c.chamberId)
            active == { i \in 1..Len(alarms) : /\ alarms[i].chamberId = c.chamberId
                                               /\ alarms[i].alarmType = "high_o2"
                                               /\ alarms[i].isActive } IN
        /\ \A ch \in {0, 3, 4}, v \in {0, 1} : sendAlarmToPLC(ch, v) = << >>
        /\ ( /\ c.pc = "done" /\ c.op \in {"checkForAlarms", "resolveAlarms"}
             /\ c.chamberId \notin {1, 2} )
           => c.result = << >> /\ c.out = << >>
        /\ (c.pc = "done" /\ c.settings.found)
           =>
           /\ (c.op = "checkForAlarms" /\ c.o2Level > H /\ c.seen[1] = 0)
                => /\ Cardinality(active) = 1
                   /\ \E i \in active :
                        /\ i \in Returned(c)
                        /\ alarms[i].o2LevelWhenTriggered = c.o2Level
                        /\ alarms[i].resolvedAt = NULL
                        /\ HasEvent(c.out, Event("alarm-triggered", i, NoRegister, NULL))
                   /\ WriteBits(c.out) = IF reg = "none" THEN {}
                                         ELSE { Event("writeBit", 0, reg, 1) }
                   /\ reg # "none" => plcBits[reg] = 1
           /\ (c.op = "resolveAlarms" /\ c.o2Level <= H /\ c.seen[1] = 1)
                => /\ active = {}
                   /\ \E i \in Returned(c) :
                        /\ alarms[i].chamberId = c.chamberId
                        /\ alarms[i].alarmType = "high_o2"
                        /\ ~alarms[i].isActive
                        /\ alarms[i].resolvedAt # NULL
                        /\ HasEvent(c.out, Event("alarm-resolved", i, NoRegister, NULL))
                   /\ WriteBits(c.out) = IF reg = "none" THEN {}
                                         ELSE { Event("writeBit", 0, reg, 0) }
                   /\ reg # "none" => plcBits[reg] = 0
           /\ (c.op = "checkForAlarms" /\ L <= c.o2Level /\ c.o2Level <= H)
                => /\ \A i \in Returned(c) :
                        alarms[i].alarmType \notin {"high_o2", "low_o2"}
                   /\ WriteBits(c.out) = {}
                   /\ (c.sensorStatus = "normal" /\ ~c.settings.isCalibrationRequired)
                        => c.result = << >> /\ c.out = << >>
           /\ (c.op = "resolveAlarms" /\ \A k \in 1..NumKinds : c.seen[k] # 1)
                => c.result = << >> /\ c.out = << >>

\* the scenario 20, 25, 23 with H = 24 has run for chamber 1: the alarm raised at
\* 25 has been resolved by the reading 23 and the register cleared
C7_Witness ==
    \E p \in Procs :
        LET c == proc[p] IN
        /\ c.op = "resolveAlarms" /\ c.pc = "done"
        /\ c.chamberId = 1 /\ c.o2Level = 23 /\ c.settings.alarmLevelHigh = 24
        /\ \E i \in Returned(c) :
              /\ alarms[i].alarmType = "high_o2"
              /\ alarms[i].o2LevelWhenTriggered = 25
              /\ ~alarms[i].isActive
        /\ plcBits["M00407"] = 0

\* C8: a recorded reading whose calibrated level exceeds the chamber's high
\* threshold leads to an active high_o2 alarm for that chamber.
C8_RecordedReadingRaisesAlarm ==
    \A ch \in ChamberIds :
        (\E i \in 1..Len(readings) :
            /\ readings[i].chamberId = ch
            /\ readings[i].o2Level > 100 * chamberSettings[ch].alarmLevelHigh)
        ~> (\E i \in 1..Len(alarms) :
            /\ alarms[i].chamberId = ch
            /\ alarms[i].alarmType = "high_o2"
            /\ alarms[i].isActive)

\* C9: every step of a muteAlarm call on an existing alarm leaves the alarm's
\* isActive and resolvedAt as they are; the time it computes is the mutedUntil
\* given, or now + 1 hour when omitted; its update sets isMuted and that
\* mutedUntil and nothing else; it returns without error after writing 0 to the
\* register of the alarm's chamber (nothing for a chamber without register).
C9_MuteAlarmEffect ==
    [][ \A p \in Procs :
          LET c == proc[p]
              d == proc'[p]
              id == c.alarmId IN
          (c.op = "muteAlarm" /\ c.pc # "done" /\ id <= Len(alarms) /\ d # c)
          => /\ Len(alarms') = Len(alarms)
             /\ alarms'[id].isActive = alarms[id].isActive
             /\ alarms'[id].resolvedAt = alarms[id].resolvedAt
             /\ d.error = ""
             /\ c.pc = "find"
                  => /\ d.pc = "update" /\ alarms' = alarms
                     /\ d.ts = IF c.mutedUntil # NULL THEN c.mutedUntil
                               ELSE now + OneHour
             /\ c.pc = "update"
                  => /\ d.pc = "emit"
                     /\ alarms' = [alarms EXCEPT ![id].isMuted = TRUE,
                                                  ![id].mutedUntil = c.ts]
                     /\ plcBits' = plcBits
             /\ c.pc = "emit"
                  => LET reg == ClaimedRegister(alarms[id].chamberId) IN
                     /\ d.pc = "done" /\ alarms' = alarms
                     /\ d.result = << id >>
                     /\ d.out = IF reg = "none" THEN << >>
                                ELSE << Event("writeBit", 0, reg, 0) >>
                     /\ reg # "none" => plcBits'[reg] = 0 ]_vars

\* an active high_o2 alarm of chamber 1 was muted at time 1 without a mutedUntil:
\* it is muted until 2, still active, and its register was cleared
C9_Witness ==
    \E p \in Procs :
        LET c == proc[p] IN
        /\ c.op = "muteAlarm" /\ c.pc = "done" /\ c.error = ""
        /\ c.mutedUntil = NULL
        /\ alarms[c.alarmId].chamberId = 1
        /\ alarms[c.alarmId].isMuted /\ alarms[c.alarmId].mutedUntil = 2
        /\ alarms[c.alarmId].isActive /\ alarms[c.alarmId].resolvedAt = NULL
        /\ c.out = << Event("writeBit", 0, "M00407", 0) >>
        /\ plcBits["M00407"] = 0

\* C10: no operation that touches only sensor_error or calibration_due alarms
\* (trigger, resolution, muteAlarm, resolveAlarm) issues a PLC register write.
C10_NoWriteForStatusAlarms ==
    \A p \in Procs :
        LET c == proc[p] IN
        ( /\ c.pc = "done" /\ c.error = ""
          /\ c.op \in {"checkForAlarms", "resolveAlarms", "muteAlarm", "resolveAlarm"}
          /\ \A i \in Returned(c) :
                alarms[i].alarmType \in {"sensor_error", "calibration_due"} )
        => WriteBits(c.out) = {}

\* C11: a muteAlarm or resolveAlarm call whose alarm id is not in the table ends
\* at its lookup with the error 'Alarm not found', returns nothing, changes no
\* alarm row and issues no PLC write.
C11_MissingAlarmIsNotFound ==
    [][ \A p \in Procs :
          LET c == proc[p]
              d == proc'[p] IN
          ( /\ c.op \in {"muteAlarm", "resolveAlarm"} /\ c.pc # "done"
            /\ c.alarmId > Len(alarms) /\ d # c )
          => /\ c.pc = "find" /\ d.pc = "done"
             /\ d.error = "Alarm not found"
             /\ d.result = << >> /\ d.out = << >>
             /\ alarms' = alarms /\ plcBits' = plcBits ]_vars

\* with an alarm in the table, a resolveAlarm and a muteAlarm call for an id that
\* is not there have failed
C11_Witness ==
    /\ Len(alarms) >= 1
    /\ \E p \in Procs :
          /\ proc[p].op \in {"muteAlarm", "resolveAlarm"} /\ proc[p].pc = "done"
          /\ proc[p].alarmId > Len(alarms)
          /\ proc[p].error = "Alarm not found"

\* C12: a checkForAlarms, resolveAlarms, muteAlarm or resolveAlarm call that has
\* changed an alarm row returns without error, whether or not its PLC write could
\* be issued.
C12_WriteFailureIsSwallowed ==
    \A p \in Procs :
        LET c == proc[p] IN
        ( /\ c.pc = "done" /\ c.alarm # 0
          /\ c.op \in {"checkForAlarms", "resolveAlarms", "muteAlarm", "resolveAlarm"} )
        => c.error = ""

\* C13: no chamber ever has more than one CalibrationPoints row with isActive = true,
\* whatever the interleaving of performThreePointCalibration calls.
C13_AtMostOneActiveCalibration ==
    \A ch \in ChamberIds :
        Cardinality({ i \in 1..Len(calibrationPoints) :
                        calibrationPoints[i].chamberId = ch /\ calibrationPoints[i].isActive }) <= 1

\* C14: a call of calculateCalibrationCoefficients with zeroRaw >= midRaw or
\* midRaw >= hundredRaw ends with an error and returns no coefficients.
C14_NonAscendingIsRejected ==
    \A p \in Procs :
        LET c == proc[p] IN
        ( /\ c.op = "calculateCalibrationCoefficients" /\ c.pc = "done"
          /\ (c.args[1] >= c.args[2] \/ c.args[2] >= c.args[3]) )
        => c.error # "" /\ c.result = << >>

\* C15: performThreePointCalibration succeeds exactly for the triples that have all
\* three points and are strictly ascending, zeroPointRaw = 0 included, and a
\* successful call leaves its new row as an active calibration of the chamber.
C15_AscendingIsAccepted ==
    \A p \in SeqProcs :
        LET c == proc[p] IN
        (c.op = "performThreePointCalibration" /\ c.pc = "done")
        => /\ c.error = ""
                <=> ( /\ (0 - 1) \notin {c.args[1], c.args[2], c.args[3]}
                      /\ c.args[1] < c.args[2] /\ c.args[2] < c.args[3] )
           /\ c.error = ""
                => /\ c.row \in 1..Len(calibrationPoints)
                   /\ calibrationPoints[c.row].chamberId = c.chamberId
                   /\ calibrationPoints[c.row].isActive

\* the reading (hundredths of a percent) the claims expect for a raw value and
\* coefficients in millionths
ClaimedCalibrated(raw, slope, offset) ==
    LET v == raw * slope + offset
        clamped == IF v < 0 THEN 0 ELSE IF v > 100000000 THEN 100000000 ELSE v IN
    (clamped + 5000) \div 10000

\* C16: a calibrateReading call always ends without error; without an active row
\* of the chamber (or when the lookup fails) it returns the raw value itself, and
\* with an active row the clamped linear value of that row, between 0 and 100.
C16_CalibrateReadingNeverFails ==
    [][ \A p \in Procs :
          LET c == proc[p]
              d == proc'[p]
              active == { i \in 1..Len(calibrationPoints) :
                            /\ calibrationPoints[i].chamberId = c.chamberId
                            /\ calibrationPoints[i].isActive } IN
          (c.op = "calibrateReading" /\ c.pc = "lookup" /\ d # c)
          => /\ d.pc = "done" /\ d.error = ""
             /\ d.result = << d.calibrated >>
             /\ active = {} => d.row = 0
             /\ d.row = 0 => d.calibrated = c.args[1] * 100
             /\ d.row # 0 =>
                  /\ d.row \in active
                  /\ d.calibrated \in 0..10000
                  /\ d.calibrated = ClaimedCalibrated(c.args[1],
                                        calibrationPoints[d.row].calibrationSlope,
                                        calibrationPoints[d.row].calibrationOffset) ]_vars

C16_Witness ==
    \E p \in Procs :
        /\ proc[p].op = "calibrateReading" /\ proc[p].pc = "done"
        /\ proc[p].row # 0 /\ proc[p].calibrated = 10000
        /\ proc[p].args[1] * calibrationPoints[proc[p].row].calibrationSlope
              + calibrationPoints[proc[p].row].calibrationOffset > 100000000

\* C17: applyCalibration returns rawValue * slope + offset limited to 0..100.
C17_ApplyCalibrationClamps ==
    \A p \in Procs :
        LET c == proc[p]
            v == c.args[1] * c.args[2] + c.args[3] IN
        (c.op = "applyCalibration" /\ c.pc = "done")
        => c.result = << IF v < 0 THEN 0 ELSE IF v > 100000000 THEN 100000000 ELSE v >>

C17_Witness ==
    \E p \in Procs :
        /\ proc[p].op = "applyCalibration" /\ proc[p].pc = "done"
        /\ proc[p].args[1] * proc[p].args[2] + proc[p].args[3] > 100000000
        /\ proc[p].result = << 100000000 >>

\* |x - y| is at most 0.01 (x, y in millionths)
Within001(x, y) == x - y <= 10000 /\ y - x <= 10000

CycleAtRest(r) ==
    r.pc = "idle" /\ r.rawData = << >> /\ r.pending = {} /\ r.published = << >>

\* C19: a cycle whose readRawValues fails (a failure result or an exception, the
\* busy error and the response timeout included) adds one to failedReads, leaves
\* successfulReads alone, updates no chamber, publishes nothing and ends without
\* a second attempt.
C19_FailedReadIsCounted ==
    [][ \A k \in {1, 2} :
          ( /\ cycle[k].pc = "reading" /\ cycle'[k] # cycle[k]
            /\ call[k].pc = "done" /\ call[k].result # "ok" )
          => /\ failedReads' = failedReads + 1
             /\ successfulReads' = successfulReads
             /\ lastRawFromPLC' = lastRawFromPLC
             /\ CycleAtRest(cycle'[k])
             /\ \A j \in {1, 2} : j # k => cycle'[j] = cycle[j] ]_vars

\* two cycles of a fresh reader have failed, one of them by an exception
C19_Witness ==
    /\ failedReads = 2 /\ successfulReads = 0
    /\ \A k \in {1, 2} : CycleAtRest(cycle[k])
    /\ \A ch \in {1, 2} : lastRawFromPLC[ch] = 0 - 1
    /\ \E c \in {1, 2} : call[c].pc = "done" /\ call[c].result = "throw"

\* the chambers a cycle with the given samples has to update: chamber 1 from
\* index 0, chamber 2 from index 1
ClaimedUpdates(rawData) == { ch \in {1, 2} : ch - 1 < Len(rawData) }

C21_StartIsIdempotent ==
    /\ [](/\ liveTimers \in {0, 1}
          /\ isRunning <=> liveTimers = 1
          /\ isRunning <=> intervalId # 0)
    /\ [][ (~isRunning /\ isRunning')
           => /\ liveTimers' = liveTimers + 1
              /\ intervalId' = interval
              /\ Cardinality({ k \in {1, 2} :
                    cycle[k].pc = "idle" /\ cycle'[k].pc = "reading" }) = 1 ]_vars

\* a reader that was stopped and started again, in its immediate cycle
C21_Witness ==
    /\ isRunning /\ liveTimers = 1 /\ intervalId = 500
    /\ successfulReads + failedReads = 1
    /\ \E k \in {1, 2} : cycle[k].pc = "reading" /\ cycle[3 - k].pc = "idle"

\* C22: a cycle begins only on a reader that is running after the step; the step
\* that stops the reader clears its timer and leaves every cycle and PLC exchange
\* in flight as it is, and the counters too.
C22_StopPreventsNewCycles ==
    [][ /\ \A k \in {1, 2} :
             (cycle[k].pc = "idle" /\ cycle'[k].pc # "idle") => isRunning'
        /\ (isRunning /\ ~isRunning')
             => /\ liveTimers' = 0 /\ intervalId' = 0
                /\ cycle' = cycle /\ call' = call
                /\ successfulReads' = successfulReads /\ failedReads' = failedReads
                /\ lastRawFromPLC' = lastRawFromPLC ]_vars

\* on a stopped reader a cycle that was in flight has gone on to publish
C22_Witness ==
    /\ ~isRunning /\ liveTimers = 0
    /\ successfulReads = 1 /\ failedReads = 0
    /\ \E k \in {1, 2} :
          /\ cycle[k].pc = "updating" /\ Len(cycle[k].published) = 2
          /\ cycle[3 - k].pc = "idle"

\* C23: the interval is never below 100; a step that changes it keeps the
\* counters and the chambers, leaves a running reader running with one timer of
\* the new period, and leaves a stopped reader stopped without a timer or a new
\* cycle; the timer of a running reader has the recorded interval as its period.
C23_UpdateIntervalRestarts ==
    /\ [](interval >= 100 /\ (isRunning => intervalId = interval))
    /\ [][ interval' # interval
           => /\ successfulReads' = successfulReads /\ failedReads' = failedReads
              /\ lastRawFromPLC' = lastRawFromPLC
              /\ isRunning' = isRunning
              /\ isRunning => intervalId' = interval' /\ liveTimers' = 1
              /\ ~isRunning => intervalId' = 0 /\ liveTimers' = 0 /\ cycle' = cycle ]_vars

\* a running reader that has counted a read runs with the new interval 1000
C23_Witness ==
    /\ isRunning /\ interval = 1000 /\ intervalId = 1000 /\ liveTimers = 1
    /\ successfulReads + failedReads >= 1

\* C24: a read whose response did not start with the signature returns no data:
\* it ends by the exception 'Read operation timeout'.
C24_UnsignedResponseTimesOut ==
    \A c \in CallIds :
        (call[c].op = "read" /\ call[c].pc = "done" /\ call[c].received = "unsigned")
        => /\ call[c].result = "throw"
           /\ call[c].error = "Read operation timeout"
           /\ call[c].data = << >>

\* C25: a read returns samples only after its own socket has had its response:
\* samples left by an earlier exchange are not returned.
C25_SamplesAreOwnResponse ==
    [][ \A c \in CallIds :
          ( /\ call[c].op = "read" /\ call[c].pc = "waiting"
            /\ call'[c].pc = "done" /\ call'[c].result = "ok" )
          => /\ call[c].sock = "closed"
             /\ call[c].received # "unsigned" ]_vars

\* C26: every call of readRawValues and writeData, for any register address and
\* value, builds a frame that starts with 0x02, ends with 0x03 and has just before
\* the end the two lowercase hex characters of the sum of the bytes before them
\* mod 256.
C26_FrameIsWellFormed ==
    \A c \in CallIds :
        (call[c].pc = "done" /\ call[c].op \in {"read", "write"})
        => LET f == call[c].frame
               n == Len(f)
               lrc == SumBytes(SubSeq(f, 1, n - 3)) % 256
               Digit(d) == IF d < 10 THEN 48 + d ELSE 87 + d
           IN  /\ n >= 4
               /\ f[1] = 2
               /\ f[n] = 3
               /\ f[n - 2] = Digit(lrc \div 16)
               /\ f[n - 1] = Digit(lrc % 16)

\* C27: the connection status is always 0, 1 or 2, and a call that ends because of
\* a socket error or a timeout reports failure and leaves the status at 2 (error).
C27_FailureMarksError ==
    /\ [](isConnectedPLC \in {0, 1, 2})
    /\ [][ \A c \in CallIds :
             ( /\ call[c].pc # "done"
               /\ call'[c].pc = "done"
               /\ call'[c].error \in {"Connection error", "Connection timeout",
                                      "Read operation timeout"} )
             => /\ call'[c].result \in {"fail", "throw"}
                /\ isConnectedPLC' = 2 ]_vars

\* C30: a readRawValues call rejected as busy changes nothing in the service: the
\* in-progress flag stays set and the connection status stays as it was.
C30_BusyRejectionChangesNothing ==
    [][ \A c \in CallIds :
          ( /\ call[c].pc = "idle"
            /\ call'[c].pc = "done"
            /\ call'[c].error = BusyError )
          => /\ isWorking /\ isWorking'
             /\ isConnectedPLC' = isConnectedPLC ]_vars

\* C28: in demo mode readRawValues(n) and writeData return success at once, with
\* no socket and no frame, and leave isWorking, isConnectedPLC and sensorData
\* alone; the read returns n values, 0 at index 10 and 2500..16383 elsewhere.
C28_DemoBypassesTransport ==
    [][ \A c \in CallIds :
          (demo = 1 /\ call[c].pc = "idle" /\ call'[c].pc # "idle")
          => /\ call'[c].pc = "done"
             /\ call'[c].result = "ok"
             /\ call'[c].sock = "none"
             /\ call'[c].frame = << >>
             /\ UNCHANGED <<isWorking, isConnectedPLC, sensorData>>
             /\ call'[c].op = "read" =>
                  /\ Len(call'[c].data) = call'[c].numValues
                  /\ \A i \in 1..Len(call'[c].data) :
                        IF i - 1 = 10 THEN call'[c].data[i] = 0
                        ELSE call'[c].data[i] \in 2500..16383 ]_vars

C28_Witness ==
    /\ demo = 1
    /\ \E c \in CallIds :
         /\ call[c].op = "read" /\ call[c].pc = "done" /\ call[c].result = "ok"
         /\ call[c].numValues = 12
         /\ call[c].data[11] = 0 /\ call[c].data[12] = 16383

\* C29: when an evaluation of a reading of chamber 1 or 2 (checkForAlarms, then
\* resolveAlarms with the same reading) has completed, the chamber's alarm register
\* agrees with the alarm rows: with an active high_o2 or low_o2 alarm the last
\* value written is 1, with none the last value written, if any, is 0.
C29_RegisterAgreesWithAlarms ==
    \A p \in Procs :
        (proc[p].pc = "done" /\ proc[p].op = "resolveAlarms"
            /\ proc[p].chamberId \in {1, 2})
        => LET ch == proc[p].chamberId
               active == \E i \in 1..Len(alarms) :
                            /\ alarms[i].chamberId = ch
                            /\ alarms[i].isActive
                            /\ alarms[i].alarmType \in {"high_o2", "low_o2"}
           IN  IF active THEN plcBits[ClaimedRegister(ch)] = 1
               ELSE plcBits[ClaimedRegister(ch)] \in {NULL, 0}

\* C31: once a readRawValues call has completed, none of its timers or socket
\* callbacks changes isWorking, isConnectedPLC or sensorData: neither an event on
\* the socket of a completed read, nor the checkData interval of a read that
\* timed out.
C31_CompletedReadIsInert ==
    [][ /\ \A c \in CallIds :
             ( /\ call[c].op = "read" /\ call[c].pc = "done" /\ call'[c].pc = "done"
               /\ call'[c].sock # call[c].sock )
             => UNCHANGED <<isWorking, isConnectedPLC, sensorData>>
        /\ zombies' < zombies
             => UNCHANGED <<isWorking, isConnectedPLC, sensorData>> ]_vars

\* C33: a poll cycle adds one to exactly one of successfulReads and failedReads:
\* the step in which it learns the outcome of its read adds one to their sum, and
\* no later step of the same cycle changes either counter.
C33_OneCountPerCycle ==
    [][ \A k \in CycleIds :
          cycle'[k] # cycle[k]
          => IF cycle[k].pc = "reading" /\ cycle'[k].pc # "reading"
             THEN successfulReads' + failedReads' = successfulReads + failedReads + 1
             ELSE /\ successfulReads' = successfulReads
                  /\ failedReads' = failedReads ]_vars

\* C34: a reading equal to a threshold is not a breach. checkForAlarms with
\* o2Level = alarmLevelHigh (alarmLevelLow) creates no high_o2 (low_o2) alarm, and
\* a high_o2 (low_o2) row is only ever created by a reading above (below) the
\* threshold; resolveAlarms with such a reading leaves no high_o2 (low_o2) alarm of
\* the chamber active, and has resolved the one it found.
C34_ThresholdIsNotABreach ==
    /\ [](\A p \in Procs :
            LET c == proc[p]
                Bound(type) == IF type = "high_o2" THEN c.settings.alarmLevelHigh
                               ELSE c.settings.alarmLevelLow
                Kind(type) == IF type = "high_o2" THEN 1 ELSE 2 IN
            (c.pc = "done" /\ c.settings.found)
            => \A type \in {"high_o2", "low_o2"} :
                 c.o2Level = Bound(type)
                 => /\ c.op = "checkForAlarms"
                         => \A i \in Returned(c) : alarms[i].alarmType # type
                    /\ c.op = "resolveAlarms"
                         => /\ \A i \in 1..Len(alarms) :
                                 ( /\ alarms[i].chamberId = c.chamberId
                                   /\ alarms[i].alarmType = type )
                                 => ~alarms[i].isActive
                            /\ c.seen[Kind(type)] = 1
                                 => \E i \in Returned(c) :
                                       /\ alarms[i].alarmType = type
                                       /\ alarms[i].chamberId = c.chamberId
                                       /\ alarms[i].resolvedAt # NULL)
    /\ [][ Len(alarms') > Len(alarms)
           => LET a == alarms'[Len(alarms')] IN
              /\ a.alarmType = "high_o2" => a.o2LevelWhenTriggered > 24
              /\ a.alarmType = "low_o2" => a.o2LevelWhenTriggered < 16 ]_vars

\* resolveAlarms with a reading of exactly 24 has found and resolved the active
\* high_o2 alarm of its chamber
C34_Witness ==
    \E p \in Procs :
        LET c == proc[p] IN
        /\ c.op = "resolveAlarms" /\ c.pc = "done"
        /\ c.o2Level = 24 /\ c.settings.alarmLevelHigh = 24
        /\ c.seen[1] = 1
        /\ \E i \in Returned(c) : alarms[i].alarmType = "high_o2" /\ ~alarms[i].isActive

\* C37: a performThreePointCalibration call that rejects its points (one missing,
\* or not ascending) has changed nothing in the record store: it is rejected by
\* the step that follows the call, before any store operation, and neither step
\* changes the calibration rows or the chamber settings.
C37_RejectionChangesNothing ==
    [][ \A p \in Procs :
          /\ ( /\ proc'[p].op = "performThreePointCalibration"
               /\ proc[p].pc # "done" /\ proc'[p].pc = "done"
               /\ proc'[p].error \in {"All calibration points are required",
                                      "Calibration points must be in ascending order"} )
             => /\ proc[p].pc = "validate"
                /\ UNCHANGED <<calibrationPoints, chamberSettings>>
          /\ ( proc'[p].op = "performThreePointCalibration" /\ proc'[p].pc = "validate" )
             => UNCHANGED <<calibrationPoints, chamberSettings>> ]_vars

\* chamber 1 has an active calibration and a later request with descending points
\* has been rejected
C37_Witness ==
    \E p \in Procs :
        /\ proc[p].op = "performThreePointCalibration" /\ proc[p].pc = "done"
        /\ proc[p].error = "Calibration points must be in ascending order"
        /\ \E i \in 1..Len(calibrationPoints) :
              /\ calibrationPoints[i].chamberId = proc[p].chamberId
              /\ calibrationPoints[i].isActive

\* C32: a performThreePointCalibration call that has failed (rejected points, or a
\* store failure at any step) leaves the chamber's previously active row active:
\* for one caller, a chamber that has calibration rows has an active one when a
\* call for it has failed.
C32_FailureKeepsActiveCalibration ==
    \A p \in Procs :
        ( /\ proc[p].op = "performThreePointCalibration" /\ proc[p].pc = "done"
          /\ proc[p].error # ""
          /\ \E i \in 1..Len(calibrationPoints) :
                calibrationPoints[i].chamberId = proc[p].chamberId )
        => \E i \in 1..Len(calibrationPoints) :
              /\ calibrationPoints[i].chamberId = proc[p].chamberId
              /\ calibrationPoints[i].isActive

\* C38: alarm rows are never reactivated and never removed: a row that is inactive
\* stays inactive (a new breach adds a new row), and in every state a row is
\* inactive exactly when its resolvedAt is set.
C38_NeverReactivated ==
    /\ [](\A i \in 1..Len(alarms) : alarms[i].isActive <=> alarms[i].resolvedAt = NULL)
    /\ [][ /\ Len(alarms') >= Len(alarms)
           /\ \A i \in 1..Len(alarms) : ~alarms[i].isActive => ~alarms'[i].isActive ]_vars

\* a high_o2 alarm of chamber 1 has been resolved and a later breach has created
\* a second, active row
C38_Witness ==
    \E i, j \in 1..Len(alarms) :
        /\ i < j
        /\ alarms[i].chamberId = alarms[j].chamberId
        /\ alarms[i].alarmType = alarms[j].alarmType
        /\ ~alarms[i].isActive /\ alarms[i].resolvedAt # NULL
        /\ alarms[j].isActive

\* C39: isMuted is never reset; and while a muted high_o2 or low_o2 alarm of a
\* chamber is active, no step creates another alarm of that chamber and kind and
\* no step of a checkForAlarms call emits a write of 1 to the chamber's register
\* for that kind.
C39_MutedAlarmStaysQuiet ==
    [][ \A i \in 1..Len(alarms) :
          alarms[i].isMuted
          => /\ i <= Len(alarms') /\ alarms'[i].isMuted
             /\ ( /\ alarms[i].isActive /\ alarms'[i].isActive
                  /\ alarms[i].alarmType \in {"high_o2", "low_o2"} )
                => /\ \A j \in (Len(alarms) + 1)..Len(alarms') :
                        ~( /\ alarms'[j].chamberId = alarms[i].chamberId
                           /\ alarms'[j].alarmType = alarms[i].alarmType )
                   /\ \A p \in Procs :
                        ( /\ proc[p].op = "checkForAlarms"
                          /\ proc[p].chamberId = alarms[i].chamberId
                          /\ proc[p].kind \in 1..NumKinds
                          /\ AlarmTypes[proc[p].kind] = alarms[i].alarmType )
                        => WriteBits(proc'[p].out) \subseteq WriteBits(proc[p].out) ]_vars

\* the high_o2 alarm of chamber 2 was muted, the time it was muted until has come,
\* and a later checkForAlarms with 25 has found it and returned nothing
C39_Witness ==
    \E i \in 1..Len(alarms), p \in Procs :
        /\ alarms[i].chamberId = 2 /\ alarms[i].alarmType = "high_o2"
        /\ alarms[i].isActive /\ alarms[i].isMuted
        /\ alarms[i].mutedUntil <= now
        /\ proc[p].op = "checkForAlarms" /\ proc[p].pc = "done"
        /\ proc[p].chamberId = 2 /\ proc[p].o2Level = 25
        /\ proc[p].seen[1] = 1
        /\ proc[p].result = << >> /\ proc[p].out = << >>
        /\ plcBits["M00408"] = 0

\* C36: the value field of a write frame (the four bytes after the 7-byte header
\* and the 6-character address) is the value mod 65536 as four uppercase hex
\* digits, most significant first, padded with zeros.
C36_ValueFieldIsFourHexDigits ==
    \A c \in CallIds :
        (call[c].op = "write" /\ call[c].pc = "done" /\ call[c].frame # << >>)
        => LET f == call[c].frame
               v == call[c].value % 65536
               Digit(x) == IF x < 10 THEN 48 + x ELSE 55 + x
           IN  /\ Len(f) = 7 + 6 + 4 + 3
               /\ SubSeq(f, 14, 17) = << Digit(v \div 4096), Digit((v \div 256) % 16),
                                         Digit((v \div 16) % 16), Digit(v % 16) >>

\* frames have been built for 255 ("00FF") and for 109517 ("ABCD")
C36_Witness ==
    \E c, d \in CallIds :
        /\ call[c].op = "write" /\ call[c].value = 255
        /\ SubSeq(call[c].frame, 14, 17) = <<48, 48, 70, 70>>
        /\ call[d].op = "write" /\ call[d].value = 109517
        /\ SubSeq(call[d].frame, 14, 17) = <<65, 66, 67, 68>>

\* C35: every readRawValues call outside demo mode ends; a call that ends before
\* the PLC has accepted the connection or while the response is still outstanding
\* on its socket ends as a failure; and isWorking is clear when a call has ended.
C35_ReadEndsInTime ==
    /\ \A c \in CallIds :
          (call[c].op = "read" /\ call[c].pc \in {"connecting", "waiting"})
              ~> (call[c].pc \in {"done", "idle"})
    /\ [][ \A c \in CallIds :
             (call[c].op = "read" /\ call[c].pc \in {"connecting", "waiting"}
                /\ call'[c].pc = "done")
             => /\ ~isWorking'
                /\ call[c].sock \in {"connecting", "open", "ended"}
                     => call'[c].result \in {"fail", "throw"} ]_vars

\* the part of C35 that holds: every read ends, and isWorking is clear when it does
C35_ReadTerminates ==
    /\ \A c \in CallIds :
          (call[c].op = "read" /\ call[c].pc \in {"connecting", "waiting"})
              ~> (call[c].pc \in {"done", "idle"})
    /\ [][ \A c \in CallIds :
             (call[c].op = "read" /\ call[c].pc \in {"connecting", "waiting"}
                /\ call'[c].pc = "done")
             => ~isWorking' ]_vars

====
